---------------------------- MODULE Spec2Model ----------------------------
(***************************************************************************)
(* Model of the vector-index maintenance of obsidian-mcp-server:           *)
(*   - VectorStore.indexVault / processBatch      (src/src/embeddings.ts)  *)
(*   - VectorStore.indexSingleNote / removeNote   (src/src/embeddings.ts)  *)
(*   - VectorStore.shouldReindex                  (src/src/embeddings.ts)  *)
(*   - the server start-up decision and the watcher handlers with their    *)
(*     debounce map                               (src/src/index.ts)       *)
(*   - the standalone indexing worker's run       (src/src/obsidian-server.ts) *)
(*                                                                         *)
(* Node runs one event loop: every action below is one run-to-completion   *)
(* segment of a handler or of an async function, from one await to the     *)
(* next.  The vector store is vectra's LocalIndex: insertItem rejects an   *)
(* id that is already present, deleteItem of an absent id does nothing,    *)
(* beginUpdate/endUpdate bracket a transaction whose items reach           *)
(* index.json at endUpdate.                                                *)
(*                                                                         *)
(* The specifications share the state:                                     *)
(*   Spec        one serving process and its indexVault runs;              *)
(*   SpecSingle  one serving process and its single-document calls, one    *)
(*               after another;                                            *)
(*   SpecServer  processes (server or worker) started one after another:   *)
(*               the start-up decision, the start-up run, the calls made   *)
(*               while serving;                                            *)
(*   SpecWatch   one serving process with its file watcher: events,        *)
(*               debounce timers, and the concurrent single-document       *)
(*               calls they dispatch;                                      *)
(*   SpecBulk    one indexVault call over a large corpus, its documents    *)
(*               counted: batches, checkpoints, interruption;              *)
(*   SpecCrash   an indexing worker interrupted during its run and         *)
(*               started again;                                            *)
(*   SpecGuard   the indexing workers started against one directory and    *)
(*               their PID file; SpecGuardServer adds the server;          *)
(*   SpecStartup the server's start-up decision, start after start;        *)
(*   SpecDecide  shouldReindex as a function of what it finds on disk;     *)
(*   SpecRemove  removeNote on an index with or without the note;          *)
(*   SpecEmbed   the embedding calls of indexVault and indexSingleNote,    *)
(*               their timeouts and the loading of the model;              *)
(*               SpecEmbedLive adds fairness;                              *)
(*   SpecArm     the server's start-up run and the arming of the watcher;  *)
(*   SpecSearch  the obsidian_semantic_search tool over drawn hits;        *)
(*   SpecOrder   the inserts of one indexVault call over several batches;  *)
(*   SpecSkip    one indexVault call on a vault indexed before;            *)
(*   SpecLife    the embedding pipeline over one long indexVault call:     *)
(*               loading, refresh, abandoned embedding calls;              *)
(*   SpecPair    two single-document calls dispatched together;            *)
(*   SpecDurable indexSingleNote calls, one after another, with the        *)
(*               writes to index.json and to the metadata file;            *)
(*   SpecFilter  the watcher over a file that is no note, a note, and a    *)
(*               note under an ignored folder.                             *)
(***************************************************************************)
EXTENDS Integers, Sequences, FiniteSets, TLC

\* ----------------------------------------------------------------- bounds
NumNotes == 2
MaxChanges == 1
MaxStarts == 2
MaxCalls == 2
MaxEvents == 3
TickMs == 1000
MaxCorpus == 70
NumWorkers == 2
MaxBatches == 2
MaxLoads == 2
MaxDocs == 12
LongCorpus == 520

\* ------------------------------------------------------ program constants
BATCH_SIZE == 10
CHECKPOINT_INTERVAL == 50
PIPELINE_REFRESH_INTERVAL == 500
DEBOUNCE_DELAY == 2000
\* hybridSearch's weights, in tenths (a combined score is in hundredths)
SEMANTIC_WEIGHT == 6
KEYWORD_WEIGHT == 4
\* search asks vectra for limit + 10 items
QUERY_MARGIN == 10

\* ------------------------------------------------------------- the domain
\* Markdown notes of the vault, named by their relative path; OtherPaths are
\* watched files whose name does not end in ".md".
MdPaths == 1..NumNotes
OtherPaths == {0}
AllPaths == MdPaths \cup OtherPaths

endsWithMd(p) == p \in MdPaths

Models == {"all-MiniLM-L6-v2", "bge-base-en-v1.5"}
NoModel == "none"

\* The vector length a model produces (docs/semantic-search.md).
ModelDimensions(m) == IF m = "all-MiniLM-L6-v2" THEN 384 ELSE 768

Kinds == {"auto", "always", "never", "worker"}

VARIABLES
  files,        \* the vault: [MdPaths -> [exists, mtime]]
  items,        \* LocalIndex items in memory: [MdPaths -> Seq(entry)]
  disk,         \* index.json as last written
  txOpen,       \* LocalIndex has an update (transaction) in progress
  indexCreated, \* index.json exists
  metaFile,     \* index-metadata.json: [fp: path -> lastModified (0: no record), meta: model]
  pipeline,     \* transformerPipeline is loaded
  proc,         \* the running process: phase, configured model, kind, start-up decision
  run,          \* the locals of the indexVault call in progress (or last completed)
  tasks,        \* the single-document calls in progress
  updateQueue,  \* the watcher's debounce map: path -> timer id (0: no entry)
  timers,       \* the event loop's scheduled, not yet fired timers
  nextId,       \* ids handed out so far (timers and tasks)
  bulk,         \* the locals of an indexVault call over a large corpus, its documents counted
  pidFile,      \* indexing-worker.pid: the process id it holds (NoPid: no file)
  workers,      \* the indexing workers and the server started against one index directory
  decide,       \* a shouldReindex call on its own: what it finds on disk, its result
  emb,          \* the embedding calls of an indexVault run and of an indexSingleNote call, counted
  search,       \* a call of the obsidian_semantic_search tool: its inputs and its results
  order,        \* an indexVault call over a list of several batches: the inserts it issues
  life,         \* an indexVault call over more than PIPELINE_REFRESH_INTERVAL documents, counted: the pipeline
  hist          \* history: what the properties need to remember

storeVars == <<items, disk, txOpen, indexCreated, metaFile, pipeline>>
watchVars == <<updateQueue, timers, nextId>>
auxVars == <<bulk, pidFile, workers, decide, emb, search, order, life>>
vars == <<files, items, disk, txOpen, indexCreated, metaFile, pipeline, proc,
          run, tasks, updateQueue, timers, nextId, bulk, pidFile, workers, decide, emb, search, order, life, hist>>

\* ---------------------------------------------------------------- helpers
NoItems == [p \in MdPaths |-> <<>>]
NoFingerprints == [p \in MdPaths |-> 0]
EmptyMetadata == [fp |-> NoFingerprints, meta |-> NoModel]

Min(a, b) == IF a < b THEN a ELSE b

\* The ascending sequence of the elements of a set of paths.
RECURSIVE SortedSeq(_)
SortedSeq(S) ==
  IF S = {} THEN <<>>
  ELSE LET m == CHOOSE x \in S : \A y \in S : x <= y
       IN <<m>> \o SortedSeq(S \ {m})

Entry(model, src) == [model |-> model, src |-> src]

\* fs.access / fs.stat / readFile succeed on a path
Exists(p) == files[p].exists
Mtime(p) == files[p].mtime

\* ------------------------------------------------------------ record shapes
Reason(text, from, to) == [text |-> text, from |-> from, to |-> to]

DownProc == [phase |-> "down", model |-> NoModel, kind |-> "auto",
             shouldIndex |-> FALSE, reason |-> Reason("none", NoModel, NoModel)]

OutDoc == [st |-> "out", src |-> 0, mt |-> 0]
TodoDoc == [st |-> "todo", src |-> 0, mt |-> 0]

IdleRun ==
  [pc |-> "idle", notes |-> <<>>, i |-> 0, force |-> FALSE, origin |-> "none",
   existingIndex |-> EmptyMetadata,
   bs |-> [p \in MdPaths |-> OutDoc],
   indexed |-> 0, skipped |-> 0, failed |-> 0,
   \* history of the run: what each enumerated document was counted as, whether
   \* it had an entry when the run began, the provider and store calls made
   outcome |-> [p \in MdPaths |-> "none"],
   hadEntry |-> [p \in MdPaths |-> FALSE],
   fpAtStart |-> NoFingerprints,
   embedCalls |-> 0, embedFailed |-> 0, insertCalls |-> 0]

\* embeddings.ts 104: the provider of the configuration
Provider == "transformers"

\* embeddings.ts 381-387: the __meta__ entry of the index metadata
Meta(model, provider) == [model |-> model, provider |-> provider]
NoMeta == Meta(NoModel, "none")

\* An indexVault call over MaxCorpus documents, counted and not enumerated:
\* flushed and saved are the numbers of this run's indexed documents whose
\* entries are in index.json and whose fingerprints are in
\* index-metadata.json; at: where an interrupted call was.
\* meta: existingIndex.__meta__ in memory; metaSaved: the __meta__ of
\* index-metadata.json; checkpoints: the checkpoints the call has made.
IdleBulk ==
  [pc |-> "idle", total |-> 0, i |-> 0, indexed |-> 0, skipped |-> 0, failed |-> 0,
   tx |-> FALSE, flushed |-> 0, saved |-> 0, at |-> "none",
   meta |-> NoMeta, metaSaved |-> NoMeta, checkpoints |-> 0]

\* Process ids: the indexing workers, the server, and a process that has
\* ended and whose id a stale PID file still holds.
\* No indexVault run and no indexSingleNote call has asked for an embedding.
IdleEmb ==
  [pc |-> "idle", batch |-> 0, todo |-> 0, loading |-> 0, inferring |-> 0,
   abandonedLoading |-> 0, abandonedInferring |-> 0,
   loaded |-> FALSE, loads |-> 0, single |-> "idle"]

\* No indexVault call over the long list has been made.  st: what became of
\* each document of the current batch; inflight: the insertItem calls issued
\* and not returned; log: the documents in the order their inserts were
\* issued; late: an embedding completed after that of a later document of
\* its batch.
IdleOrder ==
  [pc |-> "idle", i |-> 0, st |-> [d \in 1..MaxDocs |-> "out"], inflight |-> {},
   log |-> <<>>, late |-> FALSE]

\* No indexVault call over the long corpus has been made.  loaded: the
\* transformer pipeline is set; abandoned: a provider call whose caller has
\* timed out still runs on the pipeline; resets: the disposals made;
\* loads: the loads of the model; inUse: a disposal was made while a
\* provider call was running.
IdleLife ==
  [pc |-> "idle", i |-> 0, indexed |-> 0, loaded |-> FALSE, abandoned |-> FALSE,
   resets |-> 0, loads |-> 0, inUse |-> FALSE]

\* No search has been asked for.
NoSearch ==
  [sem |-> <<>>, kw |-> <<>>, limit |-> 1, minScore |-> 0, hybrid |-> FALSE,
   done |-> FALSE, results |-> <<>>]

NoPid == 0
WorkerPids == 1..NumWorkers
ServerPid == NumWorkers + 1
DeadPid == NumWorkers + 2
Pids == WorkerPids \cup {ServerPid}

\* found: what the guard saw ("none", "dead", "live"); wrote, unlinked,
\* created: the process has written the PID file, deleted it, constructed its
\* VectorStore; armed: its SIGINT/SIGTERM handlers are registered;
\* signalled: a handler is waiting for its cleanup; status: the exit status.
OffWorker ==
  [pc |-> "off", read |-> NoPid, found |-> "none", wrote |-> FALSE,
   unlinked |-> FALSE, created |-> FALSE, armed |-> FALSE, signalled |-> FALSE,
   status |-> 0, how |-> "none"]

NoWorkers == [w \in Pids |-> OffWorker]

\* index-metadata.json as readFile and JSON.parse find it
FileStates == {"missing", "corrupt", "notObject", "ok"}

NoStreak == [path |-> 0, n |-> 0, oks |-> 0, err |-> FALSE, clean |-> FALSE]
NoPrevRun == [done |-> FALSE, force |-> FALSE, failed |-> 0, disturbed |-> FALSE]

InitHist ==
  [starts |-> 0, calls |-> 0, changes |-> 0,
   disturbed |-> FALSE,     \* a file changed since the last indexVault run began
   prevRun |-> NoPrevRun,   \* the indexVault run before the current one
   streak |-> NoStreak,     \* consecutive indexSingleNote calls on one unchanged path
   lastEvent |-> [p \in MdPaths |-> 0],      \* timer set by the last add/change event (0: none)
   sinceEvent |-> [p \in MdPaths |-> DEBOUNCE_DELAY], \* ms since that event, capped
   burstFired |-> [p \in MdPaths |-> 0],     \* indexSingleNote dispatches by timers of the current burst
   early |-> [p \in MdPaths |-> FALSE],      \* a dispatch came sooner than DEBOUNCE_DELAY after the last event
   unlinked |-> [p \in MdPaths |-> FALSE],   \* the last event on the path was an unlink
   superseded |-> [p \in MdPaths |-> FALSE], \* that unlink arrived while an add/change timer was pending
   indexAfterUnlink |-> [p \in MdPaths |-> 0], \* indexSingleNote dispatches since that unlink
   removeAtUnlink |-> [p \in MdPaths |-> 0], \* removeNote dispatches made by that unlink
   crash |-> "none",        \* "crashed": an indexVault call was interrupted; "recovering": the next call runs
   fpAtCrash |-> NoFingerprints]  \* the fingerprints on disk at the interruption

\* ------------------------------------------------------------- the vault
\* A user saves a note (or touches it): the mtime moves on.
FsTouch(p) ==
  /\ Exists(p)
  /\ files' = [files EXCEPT ![p].mtime = @ + 1]

FsDelete(p) ==
  /\ Exists(p)
  /\ files' = [files EXCEPT ![p].exists = FALSE]

FsCreate(p) ==
  /\ ~Exists(p)
  /\ files' = [files EXCEPT ![p] = [exists |-> TRUE, mtime |-> @.mtime + 1]]

\* What a file change does to the history.
HistFsChange(h, p) ==
  [h EXCEPT !.changes = @ + 1,
            !.disturbed = TRUE,
            !.streak = IF @.path = p THEN [@ EXCEPT !.clean = FALSE] ELSE @]

\* ------------------------------------------------------- pure functions
\* A faulty skip test that never finds a document unchanged.
isUnchanged_Never(existingIndex, p, mtimeMs) == FALSE

\* embeddings.ts 224-233: the skip test of processBatch
isUnchanged(existingIndex, p, mtimeMs) ==
  /\ existingIndex.fp[p] # 0
  /\ mtimeMs = existingIndex.fp[p]

\* utils findAllNotes: the notes found in the vault, in path order
findAllNotes == SortedSeq({p \in MdPaths : Exists(p)})

\* index.listItems().length
totalDocuments(its) == Cardinality({p \in MdPaths : Len(its[p]) > 0})

shouldReindex_EmptyFirst(indexExists, metadata, currentModel, its) ==
  IF ~indexExists
    THEN [reindex |-> TRUE, reason |-> Reason("first-time setup", NoModel, NoModel)]
  ELSE IF totalDocuments(its) = 0
    THEN [reindex |-> TRUE, reason |-> Reason("index empty", NoModel, NoModel)]
  ELSE IF metadata.meta = NoModel
    THEN [reindex |-> TRUE, reason |-> Reason("legacy index", NoModel, NoModel)]
  ELSE IF metadata.meta # currentModel
    THEN [reindex |-> TRUE, reason |-> Reason("model changed", metadata.meta, currentModel)]
  ELSE [reindex |-> FALSE, reason |-> Reason("index valid", NoModel, NoModel)]

\* embeddings.ts 556-612
shouldReindex(indexExists, metadata, currentModel, its) ==
  IF ~indexExists
    THEN [reindex |-> TRUE, reason |-> Reason("first-time setup", NoModel, NoModel)]
  ELSE IF metadata.meta = NoModel
    THEN [reindex |-> TRUE, reason |-> Reason("legacy index", NoModel, NoModel)]
  ELSE IF metadata.meta # currentModel
    THEN [reindex |-> TRUE, reason |-> Reason("model changed", metadata.meta, currentModel)]
  ELSE IF totalDocuments(its) = 0
    THEN [reindex |-> TRUE, reason |-> Reason("index empty", NoModel, NoModel)]
  ELSE [reindex |-> FALSE, reason |-> Reason("index valid", NoModel, NoModel)]

\* embeddings.ts 617-624: loadIndexMetadata: the parsed file, or {} when
\* readFile or JSON.parse throws
loadIndexMetadata(file, stored) ==
  IF file \in {"missing", "corrupt"} THEN EmptyMetadata ELSE stored

\* embeddings.ts 606-611: the catch block of shouldReindex
ValidationFailed ==
  [reindex |-> TRUE, reason |-> Reason("validation failed", NoModel, NoModel)]

\* embeddings.ts 556-612 with its try/catch.  Two things throw inside the
\* try: metadata.__meta__ (574) when the file parses to a value that is no
\* object, and getStats (593) when index.listItems cannot read index.json.
shouldReindexCaught(indexExists, file, stored, currentModel, its, statsThrow) ==
  IF indexExists /\ file = "notObject" THEN ValidationFailed
  ELSE LET r == shouldReindex(indexExists, loadIndexMetadata(file, stored), currentModel, its)
       IN IF statsThrow /\ r.reason.text \in {"index empty", "index valid"}
            THEN ValidationFailed
            ELSE r

NoDecision ==
  [file |-> "missing", statsThrow |-> FALSE, done |-> FALSE,
   out |-> [reindex |-> FALSE, reason |-> Reason("none", NoModel, NoModel)]]

\* index.ts 302-318: the start-up decision of the server; the worker
\* (obsidian-server.ts 1217) always runs indexVault(false)
startupDecision_Auto(kind, model, metadata, its) ==
  shouldReindex(TRUE, metadata, model, its)

startupDecision(kind, model, metadata, its) ==
  IF kind \in {"always", "true"}
    THEN [reindex |-> TRUE, reason |-> Reason("always", NoModel, NoModel)]
  ELSE IF kind \in {"never", "false"}
    THEN [reindex |-> FALSE, reason |-> Reason("disabled", NoModel, NoModel)]
  ELSE IF kind = "worker" THEN [reindex |-> TRUE, reason |-> Reason("worker", NoModel, NoModel)]
  ELSE shouldReindex(TRUE, metadata, model, its)

\* The forceReindex argument of the start-up call: index.ts 324 calls
\* indexVault() and the worker indexVault(false).
startupForce == FALSE

\* ---------------------------------------------------- vectra LocalIndex
\* A faulty search of the listed items that never finds the path.
ListExisting_None(its, p) == FALSE

ListExisting(its, p) == Len(its[p]) > 0
InsertThrows(its, p) == Len(its[p]) > 0
InsertItem(its, p, e) == [its EXCEPT ![p] = Append(@, e)]
DeleteItem(its, p) == [its EXCEPT ![p] = <<>>]

\* ------------------------------------------------------------ indexVault
\* The documents of the batch that starts at index i (notes.slice(i, i + BATCH_SIZE)).
BatchPositions(notes, i) == {j \in 1..Len(notes) : i < j /\ j <= i + BATCH_SIZE}
BatchPaths(notes, i) == {notes[j] : j \in BatchPositions(notes, i)}
BatchStates(notes, i) ==
  [p \in MdPaths |-> IF p \in BatchPaths(notes, i) THEN TodoDoc ELSE OutDoc]

\* A faulty count that finds no document in any state.
CountSt_None(r, st) == 0

Settled(st) == st \in {"ok", "skip", "fail"}
CountSt(r, st) == Cardinality({p \in BatchPaths(r.notes, r.i) : r.bs[p].st = st})

\* A faulty collection in which one failed document fails its whole batch.
CollectBatch_AllOrNothing(r) ==
  IF \A p \in BatchPaths(r.notes, r.i) : Settled(r.bs[p].st)
    THEN [r EXCEPT !.skipped = @ + CountSt(r, "skip"),
                   !.failed = @ + CountSt(r, "fail"),
                   !.pc = IF CountSt(r, "ok") > 0 /\ CountSt(r, "fail") = 0
                            THEN "insert" ELSE "after"]
    ELSE r

\* Promise.all resolves with the last document of the batch: processBatch
\* returns and indexVault adds its counts (embeddings.ts 298-305), then enters
\* the insert loop, which it leaves at once when no result is left.
CollectBatch(r) ==
  IF \A p \in BatchPaths(r.notes, r.i) : Settled(r.bs[p].st)
    THEN [r EXCEPT !.skipped = @ + CountSt(r, "skip"),
                   !.failed = @ + CountSt(r, "fail"),
                   !.pc = IF CountSt(r, "ok") > 0 THEN "insert" ELSE "after"]
    ELSE r

\* embeddings.ts 276-284: findAllNotes, loadIndexMetadata, beginUpdate
BeginRun(force, origin) ==
  LET notes == findAllNotes
  IN [IdleRun EXCEPT
        !.pc = IF Len(notes) = 0 THEN "finish" ELSE "batch",
        !.notes = notes,
        !.force = force,
        !.origin = origin,
        !.existingIndex = metaFile,
        !.bs = BatchStates(notes, 0),
        !.hadEntry = [p \in MdPaths |-> Len(items[p]) > 0],
        !.fpAtStart = metaFile.fp]

HistBeginRun(h) ==
  [h EXCEPT !.prevRun = [done |-> run.pc = "done", force |-> run.force,
                         failed |-> run.failed, disturbed |-> h.disturbed],
            !.disturbed = FALSE,
            !.streak = NoStreak,
            !.crash = IF @ = "crashed" THEN "recovering" ELSE "none"]

\* A faulty skip test that is made whatever forceReindex is.
CheckReadDoc_ForceIgnored(r, p) ==
  IF r.existingIndex.fp[p] # 0 /\ ~Exists(p)
    THEN [st |-> "fail", src |-> 0, mt |-> 0]
  ELSE IF isUnchanged(r.existingIndex, p, Mtime(p))
    THEN [st |-> "skip", src |-> 0, mt |-> 0]
  ELSE IF ~Exists(p)
    THEN [st |-> "fail", src |-> 0, mt |-> 0]
  ELSE [st |-> "read", src |-> Mtime(p), mt |-> 0]

\* embeddings.ts 219-236: one document of the batch, up to readNote.
\* The skip test stats the file only when a fingerprint exists.
CheckReadDoc(r, p) ==
  IF ~r.force /\ r.existingIndex.fp[p] # 0 /\ ~Exists(p)
    THEN [st |-> "fail", src |-> 0, mt |-> 0]           \* fs.stat throws
  ELSE IF ~r.force /\ isUnchanged(r.existingIndex, p, Mtime(p))
    THEN [st |-> "skip", src |-> 0, mt |-> 0]
  ELSE IF ~Exists(p)
    THEN [st |-> "fail", src |-> 0, mt |-> 0]           \* readNote throws
  ELSE [st |-> "read", src |-> Mtime(p), mt |-> 0]

OutcomeOf(st, old) ==
  IF st = "skip" THEN "skipped" ELSE IF st = "fail" THEN "failed" ELSE old

BatchCheckRead(p) ==
  /\ run.pc = "batch"
  /\ run.bs[p].st = "todo"
  /\ LET d == CheckReadDoc(run, p)
         r == [run EXCEPT !.bs[p] = d,
                          !.outcome[p] = OutcomeOf(d.st, @)]
     IN run' = CollectBatch(r)
  /\ UNCHANGED <<files, storeVars, proc, auxVars, tasks, watchVars, hist>>

\* embeddings.ts 237-256: the embedding (which may fail or time out) and the
\* second fs.stat
EmbedDoc(r, p, ok) ==
  IF ok /\ Exists(p)
    THEN [st |-> "ok", src |-> r.bs[p].src, mt |-> Mtime(p)]
    ELSE [st |-> "fail", src |-> 0, mt |-> 0]

BatchEmbed(p, ok) ==
  /\ run.pc = "batch"
  /\ run.bs[p].st = "read"
  /\ LET d == EmbedDoc(run, p, ok)
         r == [run EXCEPT !.bs[p] = d,
                          !.outcome[p] = OutcomeOf(d.st, @),
                          !.embedCalls = @ + 1,
                          !.embedFailed = IF ok THEN @ ELSE @ + 1]
     IN run' = CollectBatch(r)
  /\ pipeline' = TRUE
  /\ UNCHANGED <<files, items, disk, txOpen, indexCreated, metaFile, proc, auxVars,
                 tasks, watchVars, hist>>

\* The next result of the insert loop: the first document of the batch, in
\* the order of the list, that is embedded and not yet inserted.
NextResult(r) ==
  LET js == {j \in BatchPositions(r.notes, r.i) : r.bs[r.notes[j]].st = "ok"}
  IN r.notes[CHOOSE j \in js : \A k \in js : j <= k]

\* A faulty fingerprint update that records nothing.
RecordIndexed_Nothing(existingIndex, p, mtimeMs) == existingIndex

\* embeddings.ts 331-335: the fingerprint the run records for an inserted document
RecordIndexed(existingIndex, p, mtimeMs) ==
  [existingIndex EXCEPT !.fp[p] = mtimeMs]

\* embeddings.ts 308-342: one turn of the insert loop
BatchInsert ==
  /\ run.pc = "insert"
  /\ LET p == NextResult(run)
         d == run.bs[p]
         thrown == InsertThrows(items, p)
         r == IF thrown
                THEN [run EXCEPT !.bs[p].st = "rejected",
                                 !.failed = @ + 1,
                                 !.outcome[p] = "failed",
                                 !.insertCalls = @ + 1]
                ELSE [run EXCEPT !.bs[p].st = "inserted",
                                 !.existingIndex = RecordIndexed(@, p, d.mt),
                                 !.indexed = @ + 1,
                                 !.outcome[p] = "indexed",
                                 !.insertCalls = @ + 1]
     IN /\ items' = IF thrown THEN items ELSE InsertItem(items, p, Entry(proc.model, d.src))
        /\ run' = [r EXCEPT !.pc = IF CountSt(r, "ok") > 0 THEN "insert" ELSE "after"]
  /\ UNCHANGED <<files, disk, txOpen, indexCreated, metaFile, pipeline, proc, auxVars,
                 tasks, watchVars, hist>>

\* embeddings.ts 350-363 and 365-374
CheckpointDue(indexed) == indexed > 0 /\ indexed % CHECKPOINT_INTERVAL = 0
RefreshDue(indexed) == indexed > 0 /\ indexed % PIPELINE_REFRESH_INTERVAL = 0

\* embeddings.ts 344-378: the end of a loop turn: checkpoint (endUpdate,
\* saveIndexMetadata, beginUpdate), pipeline refresh, pause, next batch
AfterBatch ==
  /\ run.pc = "after"
  /\ disk' = IF CheckpointDue(run.indexed) THEN items ELSE disk
  /\ metaFile' = IF CheckpointDue(run.indexed) THEN run.existingIndex ELSE metaFile
  /\ pipeline' = IF RefreshDue(run.indexed) THEN FALSE ELSE pipeline
  /\ LET i2 == run.i + BATCH_SIZE
     IN run' = [run EXCEPT !.i = i2,
                           !.bs = BatchStates(run.notes, i2),
                           !.pc = IF i2 < Len(run.notes) THEN "batch" ELSE "finish"]
  /\ UNCHANGED <<files, items, txOpen, indexCreated, proc, auxVars, tasks, watchVars, hist>>

\* embeddings.ts 380-390: __meta__, then endUpdate writes index.json
IndexVaultEnd ==
  /\ run.pc = "finish"
  /\ run' = [run EXCEPT !.pc = "save", !.existingIndex.meta = proc.model,
                        !.i = 0, !.bs = IdleRun.bs]
  /\ disk' = items
  /\ txOpen' = FALSE
  /\ UNCHANGED <<files, items, indexCreated, metaFile, pipeline, proc, auxVars,
                 tasks, watchVars, hist>>

\* embeddings.ts 391-403: saveIndexMetadata, return.
\* The server then arms the watcher (index.ts 335); the worker exits
\* (obsidian-server.ts 1225-1226).
IndexVaultFinish ==
  /\ run.pc = "save"
  /\ metaFile' = run.existingIndex
  /\ run' = [run EXCEPT !.pc = "done"]
  /\ UNCHANGED <<disk, txOpen>>
  /\ proc' = IF run.origin = "worker" THEN DownProc
             ELSE IF run.origin = "startup" THEN [proc EXCEPT !.phase = "serving"]
             ELSE proc
  /\ UNCHANGED <<files, items, indexCreated, pipeline, tasks, watchVars, hist, auxVars>>

\* ------------------------------------------- indexSingleNote and removeNote
\* A call in progress.  cb: the call was made by a debounce timer's callback,
\* which deletes the path's updateQueue entry when the call returns.
NewTask(id, op, p, cb) ==
  [id |-> id, op |-> op, path |-> p, pc |-> IF op = "index" THEN "read" ELSE "list",
   src |-> 0, md |-> EmptyMetadata, cb |-> cb]

Running(op, p) == {t \in tasks : t.op = op /\ t.path = p}

\* What the end of a call does to the history (calls made directly, not by a timer).
HistFinish(h, t, res) ==
  IF ~t.cb /\ t.op = "index" /\ h.streak.path = t.path
    THEN [h EXCEPT !.streak = [@ EXCEPT !.n = Min(@ + 1, 2),
                                        !.oks = IF res = "ok" THEN Min(@ + 1, 2) ELSE @,
                                        !.err = @ \/ res = "error"]]
    ELSE h

\* The call returns (every path of indexSingleNote and of removeNote ends
\* here: both catch what is thrown).  index.ts 372-373: the callback's
\* continuation runs in the same turn: updateQueue.delete(relativePath).
Finish(t, res) ==
  /\ tasks' = tasks \ {t}
  /\ updateQueue' = IF t.cb THEN [updateQueue EXCEPT ![t.path] = 0] ELSE updateQueue
  /\ hist' = HistFinish(hist, t, res)
  /\ UNCHANGED <<timers, nextId>>

Goto(t, pc) ==
  /\ tasks' = (tasks \ {t}) \cup {[t EXCEPT !.pc = pc]}
  /\ UNCHANGED <<watchVars, hist>>

\* A write to the index outside a transaction is flushed to index.json by the
\* call itself (vectra: beginUpdate, change, endUpdate).
Flushed(its) == IF txOpen THEN disk ELSE its

\* embeddings.ts 642-656: fs.access, the .md test, readNote
TaskRead(t) ==
  /\ t \in tasks /\ t.op = "index" /\ t.pc = "read"
  /\ IF Exists(t.path) /\ endsWithMd(t.path)
       THEN /\ tasks' = (tasks \ {t}) \cup {[t EXCEPT !.pc = "embed", !.src = Mtime(t.path)]}
            /\ UNCHANGED <<watchVars, hist>>
       ELSE Finish(t, "nofile")
  /\ UNCHANGED <<files, storeVars, proc, auxVars, run>>

\* A faulty call that removes the old entry before it asks for the embedding.
TaskEmbed_DeleteFirst(t, ok) ==
  /\ t \in tasks /\ t.op = "index" /\ t.pc = "embed"
  /\ pipeline' = TRUE
  /\ items' = DeleteItem(items, t.path)
  /\ disk' = Flushed(items')
  /\ IF ok THEN Goto(t, "list") ELSE Finish(t, "embedfail")
  /\ UNCHANGED <<files, txOpen, indexCreated, metaFile, proc, auxVars, run>>

\* embeddings.ts 657-662: generateEmbedding, which may throw
TaskEmbed(t, ok) ==
  /\ t \in tasks /\ t.op = "index" /\ t.pc = "embed"
  /\ pipeline' = TRUE
  /\ IF ok THEN Goto(t, "list") ELSE Finish(t, "embedfail")
  /\ UNCHANGED <<files, items, disk, txOpen, indexCreated, metaFile, proc, auxVars, run>>

\* embeddings.ts 664-669: listItems and the search for the path
TaskList(t) ==
  /\ t \in tasks /\ t.op = "index" /\ t.pc = "list"
  /\ Goto(t, IF ListExisting(items, t.path) THEN "delete" ELSE "insert")
  /\ UNCHANGED <<files, storeVars, proc, auxVars, run>>

\* embeddings.ts 670: deleteItem
TaskDelete(t) ==
  /\ t \in tasks /\ t.op = "index" /\ t.pc = "delete"
  /\ items' = DeleteItem(items, t.path)
  /\ disk' = Flushed(items')
  /\ Goto(t, "insert")
  /\ UNCHANGED <<files, txOpen, indexCreated, metaFile, pipeline, proc, auxVars, run>>

\* embeddings.ts 673-685: insertItem
TaskInsert(t) ==
  /\ t \in tasks /\ t.op = "index" /\ t.pc = "insert"
  /\ IF InsertThrows(items, t.path)
       THEN /\ Finish(t, "error")
            /\ UNCHANGED <<items, disk>>
       ELSE /\ items' = InsertItem(items, t.path, Entry(proc.model, t.src))
            /\ disk' = Flushed(items')
            /\ Goto(t, "loadmeta")
  /\ UNCHANGED <<files, txOpen, indexCreated, metaFile, pipeline, proc, auxVars, run>>

\* embeddings.ts 687-693: loadIndexMetadata, fs.stat, the new fingerprint
TaskLoadMeta(t) ==
  /\ t \in tasks /\ t.op = "index" /\ t.pc = "loadmeta"
  /\ IF Exists(t.path)
       THEN /\ tasks' = (tasks \ {t}) \cup
                 {[t EXCEPT !.pc = "save",
                            !.md = RecordIndexed(metaFile, t.path, Mtime(t.path))]}
            /\ UNCHANGED <<watchVars, hist>>
       ELSE Finish(t, "error")
  /\ UNCHANGED <<files, storeVars, proc, auxVars, run>>

\* embeddings.ts 694: saveIndexMetadata
TaskSave(t) ==
  /\ t \in tasks /\ t.op = "index" /\ t.pc = "save"
  /\ metaFile' = t.md
  /\ Finish(t, "ok")
  /\ UNCHANGED <<files, items, disk, txOpen, indexCreated, pipeline, proc, auxVars, run>>

\* embeddings.ts 710-714: removeNote's listItems; nothing more when the path
\* has no entry
RemoveList(t) ==
  /\ t \in tasks /\ t.op = "remove" /\ t.pc = "list"
  /\ IF ListExisting(items, t.path) THEN Goto(t, "delete") ELSE Finish(t, "ok")
  /\ UNCHANGED <<files, storeVars, proc, auxVars, run>>

\* embeddings.ts 715: deleteItem
RemoveDelete(t) ==
  /\ t \in tasks /\ t.op = "remove" /\ t.pc = "delete"
  /\ items' = DeleteItem(items, t.path)
  /\ disk' = Flushed(items')
  /\ Goto(t, "loadmeta")
  /\ UNCHANGED <<files, txOpen, indexCreated, metaFile, pipeline, proc, auxVars, run>>

\* embeddings.ts 718-719: loadIndexMetadata, delete metadata[relativePath]
RemoveLoadMeta(t) ==
  /\ t \in tasks /\ t.op = "remove" /\ t.pc = "loadmeta"
  /\ tasks' = (tasks \ {t}) \cup
       {[t EXCEPT !.pc = "save", !.md = [metaFile EXCEPT !.fp[t.path] = 0]]}
  /\ UNCHANGED <<files, storeVars, proc, auxVars, run, watchVars, hist>>

\* embeddings.ts 720: saveIndexMetadata
RemoveSave(t) ==
  /\ t \in tasks /\ t.op = "remove" /\ t.pc = "save"
  /\ metaFile' = t.md
  /\ Finish(t, "ok")
  /\ UNCHANGED <<files, items, disk, txOpen, indexCreated, pipeline, proc, auxVars, run>>

TaskStep ==
  \E t \in tasks :
    \/ TaskRead(t)
    \/ \E ok \in BOOLEAN : TaskEmbed(t, ok)
    \/ TaskList(t)
    \/ TaskDelete(t)
    \/ TaskInsert(t)
    \/ TaskLoadMeta(t)
    \/ TaskSave(t)
    \/ RemoveList(t)
    \/ RemoveDelete(t)
    \/ RemoveLoadMeta(t)
    \/ RemoveSave(t)

\* ------------------------------------------------------ the process's life
NoRunActive == run.pc \in {"idle", "done"}

\* index.ts 293-318 (server) and obsidian-server.ts 1204-1210 (worker): a new
\* process constructs its VectorStore with the configured model; initialize()
\* creates the index when there is none; the start-up decision is taken.
ProcStart(kind, model) ==
  /\ proc.phase = "down"
  /\ hist.starts < MaxStarts
  /\ LET loaded == IF indexCreated THEN disk ELSE NoItems
         d == startupDecision(kind, model, metaFile, loaded)
     IN /\ items' = loaded
        /\ disk' = loaded
        /\ proc' = [phase |-> "starting", model |-> model, kind |-> kind,
                    shouldIndex |-> d.reindex, reason |-> d.reason]
  /\ indexCreated' = TRUE
  /\ txOpen' = FALSE
  /\ pipeline' = FALSE
  /\ run' = IdleRun
  /\ hist' = [hist EXCEPT !.starts = @ + 1]
  /\ UNCHANGED <<files, metaFile, tasks, watchVars, auxVars>>

\* index.ts 322-327 / obsidian-server.ts 1217: the start-up indexVault call
StartupIndex ==
  /\ proc.phase = "starting"
  /\ proc.shouldIndex
  /\ run' = BeginRun(startupForce, IF proc.kind = "worker" THEN "worker" ELSE "startup")
  /\ txOpen' = TRUE
  /\ proc' = [proc EXCEPT !.phase = "indexing"]
  /\ hist' = HistBeginRun(hist)
  /\ UNCHANGED <<files, items, disk, indexCreated, metaFile, pipeline, tasks, watchVars, auxVars>>

\* index.ts 328-333: no start-up indexing, getStats only
StartupSkip ==
  /\ proc.phase = "starting"
  /\ ~proc.shouldIndex
  /\ proc' = [proc EXCEPT !.phase = "serving"]
  /\ UNCHANGED <<files, storeVars, run, tasks, watchVars, hist, auxVars>>

\* A caller of the serving process calls indexVault(forceReindex).
CallIndexVault(force) ==
  /\ proc.phase = "serving"
  /\ tasks = {}
  /\ NoRunActive
  /\ hist.calls < MaxCalls
  /\ run' = BeginRun(force, "api")
  /\ txOpen' = TRUE
  /\ hist' = [HistBeginRun(hist) EXCEPT !.calls = @ + 1]
  /\ UNCHANGED <<files, items, disk, indexCreated, metaFile, pipeline, proc, auxVars, tasks, watchVars>>

\* A single-document call, made when no other call is in progress.
HistCall(h, op, p) ==
  [h EXCEPT !.calls = @ + 1,
            !.streak = IF op = "index"
                         THEN IF @.path = p /\ @.clean THEN @
                              ELSE [NoStreak EXCEPT !.path = p, !.clean = TRUE]
                         ELSE NoStreak]

CallSingle(op, p) ==
  /\ proc.phase = "serving"
  /\ tasks = {}
  /\ NoRunActive
  /\ hist.calls < MaxCalls
  /\ tasks' = {NewTask(0, op, p, FALSE)}
  /\ hist' = HistCall(hist, op, p)
  /\ run' = IdleRun      \* the last run's record is history: another call ends it
  /\ UNCHANGED <<files, storeVars, proc, auxVars, watchVars>>

\* The serving process ends (the client closes it; SIGINT/SIGTERM, index.ts 457-473).
ProcExit ==
  /\ proc.phase = "serving"
  /\ tasks = {}
  /\ NoRunActive
  /\ proc' = DownProc
  /\ UNCHANGED <<files, storeVars, run, tasks, watchVars, hist, auxVars>>

\* A file of the vault changes, whatever the process is doing.
FsChange ==
  \E p \in MdPaths :
    /\ hist.changes < MaxChanges
    /\ \/ FsTouch(p)
       \/ FsDelete(p)
       \/ FsCreate(p)
    /\ hist' = HistFsChange(hist, p)
    /\ UNCHANGED <<storeVars, proc, auxVars, run, tasks, watchVars>>

InitFiles == [p \in MdPaths |-> [exists |-> TRUE, mtime |-> 1]]

\* The vaults a behaviour starts from: every note is there, or all but the
\* last, which was deleted and may be created again.
InitVaults == {InitFiles, [InitFiles EXCEPT ![NumNotes].exists = FALSE]}

\* The state all specifications start from: a vault of notes, no vector store yet.
InitCommon ==
  /\ files \in InitVaults
  /\ items = NoItems
  /\ disk = NoItems
  /\ txOpen = FALSE
  /\ metaFile = EmptyMetadata
  /\ pipeline = FALSE
  /\ run = IdleRun
  /\ tasks = {}
  /\ updateQueue = [p \in MdPaths |-> 0]
  /\ timers = {}
  /\ nextId = 0
  /\ bulk = IdleBulk
  /\ pidFile = NoPid
  /\ workers = NoWorkers
  /\ emb = IdleEmb
  /\ search = NoSearch
  /\ order = IdleOrder
  /\ life = IdleLife
  /\ decide = NoDecision
  /\ hist = InitHist

\* A server started with indexOnStartup "never" and the default model
\* (embeddings.ts 105) on a vault never indexed: initialize() has created the
\* empty index and nothing else has happened.
ServingProc ==
  [phase |-> "serving", model |-> "all-MiniLM-L6-v2", kind |-> "never",
   shouldIndex |-> FALSE, reason |-> Reason("disabled", NoModel, NoModel)]

RunStep ==
  \/ \E p \in MdPaths : BatchCheckRead(p)
  \/ \E p \in MdPaths, ok \in BOOLEAN : BatchEmbed(p, ok)
  \/ BatchInsert
  \/ AfterBatch
  \/ IndexVaultEnd
  \/ IndexVaultFinish

\* ----- Spec: one serving process and its indexVault runs, one after
\* another, over a changing vault
Init ==
  /\ InitCommon
  /\ indexCreated = TRUE
  /\ proc = ServingProc

Next ==
  \/ \E force \in BOOLEAN : CallIndexVault(force)
  \/ RunStep
  \/ FsChange

Spec == Init /\ [][Next]_vars

\* ----- SpecSingle: one serving process and its indexSingleNote and
\* removeNote calls, one after another, over a changing vault
NextSingle ==
  \/ \E op \in {"index", "remove"}, p \in MdPaths : CallSingle(op, p)
  \/ TaskStep
  \/ FsChange

SpecSingle == Init /\ [][NextSingle]_vars

\* ----- SpecServer: processes (server or indexing worker) started one after
\* another with a configured model and indexOnStartup setting
InitServer ==
  /\ InitCommon
  /\ indexCreated = FALSE
  /\ proc = DownProc

NextServer ==
  \/ \E kind \in Kinds, model \in Models : ProcStart(kind, model)
  \/ StartupIndex
  \/ StartupSkip
  \/ RunStep
  \/ \E op \in {"index", "remove"}, p \in MdPaths : CallSingle(op, p)
  \/ TaskStep
  \/ ProcExit
  \/ FsChange

SpecServer == InitServer /\ [][NextServer]_vars

\* ------------------------------------------------- the watcher's handlers
Timer(id, p) == [id |-> id, path |-> p, left |-> DEBOUNCE_DELAY, cur |-> TRUE]

TimersOf(p) == {t \in timers : t.path = p}

\* clearTimeout(handle): a timer that has fired or was cleared is not in the
\* event loop's list any more, and clearing it does nothing.
clearTimeout(ts, id) == {t \in ts : t.id # id}

\* The timer set by the last add/change event on p is still scheduled.
LastEventPending(p) ==
  hist.lastEvent[p] # 0 /\ \E t \in timers : t.id = hist.lastEvent[p]

\* History: a timer of an earlier burst is no longer of the current one.
Retire(ts, p) ==
  {IF t.path = p THEN [t EXCEPT !.cur = FALSE] ELSE t : t \in ts}

\* index.ts 365-375 (add) and 383-393 (change): clear the path's timer if the
\* map has one, then set a new timer and store it in the map.
Schedule(p) ==
  LET id == nextId + 1
      kept == IF updateQueue[p] # 0 THEN clearTimeout(timers, updateQueue[p]) ELSE timers
      old == IF LastEventPending(p) THEN kept ELSE Retire(kept, p)
  IN /\ timers' = old \cup {Timer(id, p)}
     /\ updateQueue' = [updateQueue EXCEPT ![p] = id]
     /\ nextId' = id
     /\ hist' = [hist EXCEPT
                   !.lastEvent[p] = id,
                   !.sinceEvent[p] = 0,
                   !.burstFired[p] = IF LastEventPending(p) THEN @ ELSE 0,
                   !.unlinked[p] = FALSE,
                   !.superseded[p] = FALSE,
                   !.indexAfterUnlink[p] = 0,
                   !.removeAtUnlink[p] = 0]

\* index.ts 359-376: the watcher reports a new file
OnAdd(p) ==
  /\ nextId < MaxEvents
  /\ IF endsWithMd(p)
       THEN /\ FsCreate(p)
            /\ Schedule(p)
       ELSE UNCHANGED <<files, watchVars, hist>>
  /\ UNCHANGED <<storeVars, proc, auxVars, run, tasks>>

\* index.ts 377-394: the watcher reports a changed file
OnChange(p) ==
  /\ nextId < MaxEvents
  /\ IF endsWithMd(p)
       THEN /\ FsTouch(p)
            /\ Schedule(p)
       ELSE UNCHANGED <<files, watchVars, hist>>
  /\ UNCHANGED <<storeVars, proc, auxVars, run, tasks>>

\* index.ts 395-411: the watcher reports a removed file: the pending timer is
\* cleared and its entry deleted, removeNote is called at once.
OnUnlink(p) ==
  /\ nextId < MaxEvents
  /\ IF endsWithMd(p)
       THEN /\ FsDelete(p)
            /\ timers' = Retire(IF updateQueue[p] # 0
                                  THEN clearTimeout(timers, updateQueue[p])
                                  ELSE timers, p)
            /\ updateQueue' = [updateQueue EXCEPT ![p] = 0]
            /\ nextId' = nextId + 1
            /\ tasks' = tasks \cup {NewTask(nextId + 1, "remove", p, FALSE)}
            /\ hist' = [hist EXCEPT
                          !.lastEvent[p] = 0,
                          !.burstFired[p] = 0,
                          !.unlinked[p] = TRUE,
                          !.superseded[p] = LastEventPending(p),
                          !.indexAfterUnlink[p] = 0,
                          !.removeAtUnlink[p] = 1]
       ELSE UNCHANGED <<files, watchVars, hist, tasks>>
  /\ UNCHANGED <<storeVars, proc, auxVars, run>>

\* index.ts 371-372: a due timer fires: its callback calls indexSingleNote,
\* which runs up to its first await.
TimerFire(t) ==
  /\ t \in timers
  /\ t.left = 0
  /\ timers' = timers \ {t}
  /\ tasks' = tasks \cup {NewTask(t.id, "index", t.path, TRUE)}
  /\ hist' = [hist EXCEPT
                !.burstFired[t.path] = IF t.cur THEN Min(@ + 1, 2) ELSE @,
                !.early[t.path] = @ \/ (t.cur /\ hist.sinceEvent[t.path] < DEBOUNCE_DELAY),
                !.indexAfterUnlink[t.path] =
                   IF hist.unlinked[t.path] THEN Min(@ + 1, 2) ELSE @]
  /\ UNCHANGED <<files, storeVars, proc, auxVars, run, updateQueue, nextId>>

\* Time passes: TickMs milliseconds.
Tick ==
  /\ \/ \E t \in timers : t.left > 0
     \/ \E p \in MdPaths : hist.sinceEvent[p] < DEBOUNCE_DELAY
  /\ timers' = {[t EXCEPT !.left = IF @ > TickMs THEN @ - TickMs ELSE 0] : t \in timers}
  /\ hist' = [hist EXCEPT
                !.sinceEvent = [p \in MdPaths |-> Min(hist.sinceEvent[p] + TickMs, DEBOUNCE_DELAY)]]
  /\ UNCHANGED <<files, storeVars, proc, auxVars, run, tasks, updateQueue, nextId>>

\* ----- SpecWatch: the server after a start-up run that indexed every note
\* (index.ts 322-327), with its watcher armed
IndexedItems(model) == [p \in MdPaths |-> <<Entry(model, 1)>>]

InitWatch ==
  /\ files = InitFiles
  /\ items = IndexedItems(ServingProc.model)
  /\ disk = IndexedItems(ServingProc.model)
  /\ txOpen = FALSE
  /\ indexCreated = TRUE
  /\ metaFile = [fp |-> [p \in MdPaths |-> 1], meta |-> ServingProc.model]
  /\ pipeline = TRUE
  /\ proc = [ServingProc EXCEPT !.kind = "auto", !.shouldIndex = TRUE,
                               !.reason = Reason("legacy index", NoModel, NoModel)]
  /\ run = IdleRun
  /\ tasks = {}
  /\ updateQueue = [p \in MdPaths |-> 0]
  /\ timers = {}
  /\ nextId = 0
  /\ bulk = IdleBulk
  /\ pidFile = NoPid
  /\ workers = NoWorkers
  /\ emb = IdleEmb
  /\ search = NoSearch
  /\ order = IdleOrder
  /\ life = IdleLife
  /\ decide = NoDecision
  /\ hist = InitHist

\* The paths the watcher reports events for: one note and one other file.
WatchPaths == {1} \cup OtherPaths

NextWatch ==
  \/ \E p \in WatchPaths : OnAdd(p)
  \/ \E p \in WatchPaths : OnChange(p)
  \/ \E p \in WatchPaths : OnUnlink(p)
  \/ \E t \in timers : TimerFire(t)
  \/ Tick
  \/ TaskStep

SpecWatch == InitWatch /\ [][NextWatch]_vars

\* =================================================================== claims
\* ----------------------------------------------------------- the coalescer
PendingTimers(p) == Cardinality(TimersOf(p))

\* C1: at every moment and for every path, at most one debounce timer is
\* scheduled.
C1_AtMostOneTimerPerPath ==
  \A p \in MdPaths : PendingTimers(p) <= 1

\* C2: at every moment and for every path, at most one indexSingleNote call
\* of the watcher is in flight.
C2_AtMostOneIndexInFlight ==
  \A p \in MdPaths : Cardinality(Running("index", p)) <= 1

\* C3: a burst of add/change events on one path, each arriving while the
\* previous event's timer is still scheduled, leads to exactly one
\* indexSingleNote dispatch, and that dispatch comes no sooner than
\* DEBOUNCE_DELAY after the burst's last event.
C3_BurstDispatchesOnce ==
  \A p \in MdPaths :
    /\ hist.burstFired[p] <= 1
    /\ ~hist.early[p]
    /\ (hist.lastEvent[p] # 0 /\ ~\E t \in TimersOf(p) : t.cur)
         => hist.burstFired[p] = 1

\* C4: when an unlink arrives while the timer of an add/change event on the
\* same path is still scheduled, no indexSingleNote is dispatched for the
\* path afterwards, and the unlink dispatches exactly one removeNote.
C4_UnlinkSupersedesPending ==
  \A p \in MdPaths :
    (hist.unlinked[p] /\ hist.superseded[p])
      => /\ hist.indexAfterUnlink[p] = 0
         /\ hist.removeAtUnlink[p] = 1

\* ------------------------------------------------------ start-up indexing
\* No call is in progress and no start-up is under way.
Quiescent ==
  /\ proc.phase \in {"down", "serving"}
  /\ NoRunActive
  /\ tasks = {}

\* C5: whenever the process is at rest and the index metadata records a
\* model, every vector stored in the index was produced by that model, and
\* all stored vectors have the same dimension.
C5_VectorsMatchMetadataModel ==
  (Quiescent /\ metaFile.meta # NoModel)
    => /\ \A p \in MdPaths : \A k \in 1..Len(disk[p]) : disk[p][k].model = metaFile.meta
       /\ \A p, q \in MdPaths : \A k \in 1..Len(disk[p]), l \in 1..Len(disk[q]) :
            ModelDimensions(disk[p][k].model) = ModelDimensions(disk[q][l].model)

\* C6: the indexing run made at a server's start-up because the decision was
\* to reindex skips no document, and when it ends with failed = 0 the index
\* holds an entry for every document of the corpus.
C6_StartupReindexIsFull ==
  (run.origin = "startup" /\ run.pc = "done")
    => /\ run.skipped = 0
       /\ run.failed = 0 => \A j \in 1..Len(run.notes) : Len(items[run.notes[j]]) >= 1

\* ------------------------------------------------------------- indexVault
\* C7: a document that had an index entry when the run began and reaches the
\* insert loop again is counted as indexed; the index then holds exactly one
\* entry for it, built from the content the run read, and the run's
\* fingerprint for it is the mtime the run saw.
C7_ReindexReplaces ==
  \A p \in MdPaths :
    (run.hadEntry[p] /\ run.bs[p].st \in {"inserted", "rejected"})
      => /\ run.bs[p].st = "inserted"
         /\ run.outcome[p] = "indexed"
         /\ Len(items[p]) = 1
         /\ items[p][1].src = run.bs[p].src
         /\ run.existingIndex.fp[p] = run.bs[p].mt

\* An indexVault call has returned and no file has changed since it began.
RunDoneUndisturbed == run.pc = "done" /\ ~hist.disturbed

\* C9: when indexVault has returned and no file changed since it began, every
\* document it counted as indexed or skipped has a persisted fingerprint equal
\* to its mtime, so isUnchanged holds for it; a document counted as failed
\* has the fingerprint it had when the run began; and in every state, a
\* document whose mtime differs from its fingerprint is not unchanged.
C9_FingerprintCorrectness ==
  /\ RunDoneUndisturbed =>
       \A p \in MdPaths :
         /\ run.outcome[p] \in {"indexed", "skipped"}
              => /\ metaFile.fp[p] = Mtime(p)
                 /\ isUnchanged(metaFile, p, Mtime(p))
         /\ run.outcome[p] = "failed" => metaFile.fp[p] = run.fpAtStart[p]
  /\ \A p \in MdPaths :
       metaFile.fp[p] # Mtime(p) => ~isUnchanged(metaFile, p, Mtime(p))

C9_Witness ==
  /\ RunDoneUndisturbed
  /\ \E p, q \in MdPaths :
       /\ run.outcome[p] = "indexed"
       /\ run.outcome[q] = "failed"
       /\ metaFile.fp[p] = Mtime(p)

\* The run that has returned was called with forceReindex = false right after
\* a run with forceReindex = false that ended with failed = 0, and no file
\* has changed since that earlier run began.
SecondRunDone ==
  /\ RunDoneUndisturbed
  /\ ~run.force
  /\ hist.prevRun.done
  /\ ~hist.prevRun.force
  /\ hist.prevRun.failed = 0
  /\ ~hist.prevRun.disturbed

\* C10: an indexVault(false) run that follows an indexVault(false) run which
\* ended with failed = 0, with no file change since that run began, returns
\* indexed = 0, skipped = N, failed = 0, and makes no embedding call and no
\* insertion.
C10_SkipCorrectness ==
  SecondRunDone
    => /\ run.indexed = 0
       /\ run.skipped = Len(run.notes)
       /\ run.failed = 0
       /\ run.embedCalls = 0
       /\ run.insertCalls = 0

C10_Witness ==
  /\ SecondRunDone
  /\ Len(run.notes) = NumNotes
  /\ run.skipped = NumNotes

\* -------------------------------------------------------- indexSingleNote
\* Two or more indexSingleNote calls on one path have been made in a row,
\* each after the one before had returned, with no change of the file since
\* the first began; the last has returned.
TwiceInARow ==
  /\ hist.streak.clean
  /\ hist.streak.n = 2
  /\ tasks = {}

\* C8: after two indexSingleNote calls in a row on an unchanged file, no call
\* has failed on the store, and when a call wrote the document the index
\* holds exactly one entry for the path, built from the file as it is, with
\* one fingerprint equal to its mtime; and after any series of sequential
\* indexSingleNote and removeNote calls the index holds at most one entry per
\* path.
C8_IndexOneIdempotent ==
  /\ TwiceInARow =>
       /\ ~hist.streak.err
       /\ hist.streak.oks >= 1 =>
            LET p == hist.streak.path
            IN /\ Len(items[p]) = 1
               /\ items[p][1].src = Mtime(p)
               /\ metaFile.fp[p] = Mtime(p)
               /\ disk[p] = items[p]
  /\ \A p \in MdPaths : Len(items[p]) <= 1

C8_Witness ==
  /\ TwiceInARow
  /\ hist.streak.oks = 2
  /\ Len(items[hist.streak.path]) = 1

\* --------------------------------------- indexVault over a large corpus
\* The same loop as above, for a corpus too large to enumerate: a batch is
\* one step, and its documents are counted by what became of them.  Nothing
\* reaches the disk inside a batch, so an interruption inside a batch leaves
\* what an interruption before it leaves.
restVars == <<files, storeVars, proc, run, tasks, watchVars, pidFile, workers, decide, emb, search, order, life, hist>>

\* embeddings.ts 276-284: findAllNotes, loadIndexMetadata, beginUpdate
BulkCall ==
  /\ bulk.pc = "idle"
  /\ bulk' = [IdleBulk EXCEPT !.pc = "batch", !.total = MaxCorpus, !.tx = TRUE]
  /\ UNCHANGED restVars

\* embeddings.ts 376-378 and 290: the pause, i += BATCH_SIZE, the loop test
BulkAdvance(b) ==
  LET i2 == b.i + BATCH_SIZE
  IN [b EXCEPT !.i = i2, !.pc = IF i2 < b.total THEN "batch" ELSE "finish"]

\* embeddings.ts 290-351: one batch: of its documents, skip are unchanged,
\* fail are not read, not embedded (stats.failed += failed) or rejected by
\* insertItem (stats.failed++), the others are inserted; then the checkpoint
\* test.
BulkProcessBatch(skip, fail) ==
  /\ bulk.pc = "batch"
  /\ LET size == Min(BATCH_SIZE, bulk.total - bulk.i)
         b == [bulk EXCEPT !.skipped = @ + skip,
                           !.failed = @ + fail,
                           !.indexed = @ + (size - skip - fail)]
     IN /\ skip + fail <= size
        /\ bulk' = IF CheckpointDue(b.indexed)
                     THEN [b EXCEPT !.pc = "endUpdate"]
                     ELSE BulkAdvance(b)
  /\ UNCHANGED restVars

\* A faulty checkpoint whose transaction stays open.
BulkCheckpointEnd_KeepOpen ==
  /\ bulk.pc = "endUpdate"
  /\ bulk' = [bulk EXCEPT !.pc = "save", !.flushed = bulk.indexed]
  /\ UNCHANGED restVars

\* embeddings.ts 354: the checkpoint's endUpdate writes index.json
BulkCheckpointEnd ==
  /\ bulk.pc = "endUpdate"
  /\ bulk' = [bulk EXCEPT !.pc = "save", !.tx = FALSE, !.flushed = bulk.indexed]
  /\ UNCHANGED restVars

\* embeddings.ts 355: the checkpoint's saveIndexMetadata
BulkCheckpointSave ==
  /\ bulk.pc = "save"
  /\ bulk' = [bulk EXCEPT !.pc = "beginUpdate", !.saved = bulk.indexed,
                           !.metaSaved = bulk.meta]
  /\ UNCHANGED restVars

\* embeddings.ts 357-378: the checkpoint's beginUpdate, then the next batch
BulkCheckpointBegin ==
  /\ bulk.pc = "beginUpdate"
  /\ bulk' = BulkAdvance([bulk EXCEPT !.tx = TRUE, !.checkpoints = @ + 1])
  /\ UNCHANGED restVars

\* embeddings.ts 380-390: __meta__ and the last endUpdate
BulkFinishEnd ==
  /\ bulk.pc = "finish"
  /\ bulk' = [bulk EXCEPT !.pc = "finishSave", !.tx = FALSE, !.flushed = bulk.indexed,
                           !.meta = Meta(proc.model, Provider)]
  /\ UNCHANGED restVars

\* embeddings.ts 391-403: the last saveIndexMetadata and the return
BulkFinishSave ==
  /\ bulk.pc = "finishSave"
  /\ bulk' = [bulk EXCEPT !.pc = "done", !.saved = bulk.indexed,
                           !.metaSaved = bulk.meta]
  /\ UNCHANGED restVars

\* The process is killed during the call: what is on disk stays.
BulkCrash ==
  /\ bulk.pc \notin {"idle", "done", "crashed"}
  /\ bulk' = [bulk EXCEPT !.pc = "crashed", !.tx = FALSE, !.at = bulk.pc]
  /\ UNCHANGED restVars

\* ----- SpecBulk: one indexVault call over MaxCorpus documents
NextBulk ==
  \/ BulkCall
  \/ \E skip, fail \in 0..BATCH_SIZE : BulkProcessBatch(skip, fail)
  \/ BulkCheckpointEnd
  \/ BulkCheckpointSave
  \/ BulkCheckpointBegin
  \/ BulkFinishEnd
  \/ BulkFinishSave
  \/ BulkCrash

SpecBulk == Init /\ [][NextBulk]_vars

\* The largest multiple of CHECKPOINT_INTERVAL the run's indexed count has
\* reached or passed.
LastMultiple(indexed) == CHECKPOINT_INTERVAL * (indexed \div CHECKPOINT_INTERVAL)

\* C11: when a batch of indexVault is about to start, or the call is
\* interrupted at that point, the entries and the fingerprints of the
\* documents indexed by the run up to the last multiple of
\* CHECKPOINT_INTERVAL it has reached or passed are on disk, and the batch
\* starts inside a newly opened transaction.
C11_CheckpointEvery50 ==
  (bulk.pc = "batch" \/ (bulk.pc = "crashed" /\ bulk.at = "batch"))
    => /\ bulk.saved >= LastMultiple(bulk.indexed)
       /\ bulk.flushed >= LastMultiple(bulk.indexed)
       /\ bulk.pc = "batch" => bulk.tx

\* ------------------------------------------------------- crash and resume
\* The process is killed while its indexVault call is in progress: what is in
\* memory is lost, index.json and index-metadata.json stay as last written.
Crash ==
  /\ proc.phase = "indexing"
  /\ ~NoRunActive
  /\ proc' = DownProc
  /\ run' = IdleRun
  /\ items' = disk
  /\ txOpen' = FALSE
  /\ pipeline' = FALSE
  /\ hist' = [hist EXCEPT !.crash = "crashed", !.fpAtCrash = metaFile.fp]
  /\ UNCHANGED <<files, disk, indexCreated, metaFile, tasks, watchVars, auxVars>>

\* ----- SpecCrash: indexing workers started one after another on one
\* unchanging vault, each of which may be killed during its indexVault(false)
NextCrash ==
  \/ \E model \in Models : ProcStart("worker", model)
  \/ StartupIndex
  \/ RunStep
  \/ Crash

SpecCrash == InitServer /\ [][NextCrash]_vars

\* The indexVault(false) call that followed an interrupted call has returned;
\* it met no embedding failure and no file has changed.
ResumedRunDone ==
  /\ run.pc = "done"
  /\ hist.crash = "recovering"
  /\ ~run.force
  /\ run.embedFailed = 0
  /\ ~hist.disturbed

\* C12: after an indexVault call interrupted at any point, an
\* indexVault(false) call that runs to completion with no embedding failure
\* and no file change leaves every document of the corpus with exactly one
\* index entry and a fingerprint equal to its mtime, and skips the documents
\* whose fingerprints were on disk at the interruption.
C12_CrashRecovery ==
  ResumedRunDone =>
    \A j \in 1..Len(run.notes) :
      LET p == run.notes[j]
      IN /\ Len(items[p]) = 1
         /\ metaFile.fp[p] = Mtime(p)
         /\ hist.fpAtCrash[p] = Mtime(p) => run.outcome[p] = "skipped"

\* ------------------------------------------------- failures inside a run
\* The insert loop of the current batch is over.
BatchOver == run.pc = "after"

\* C13: when a batch is over, every document of it has been dealt with
\* whatever failed in it: a document that was not read or not embedded is
\* counted as failed, has no new index entry and the fingerprint it had; a
\* document that was embedded and inserted has its one entry, built from what
\* was read, its fingerprint, and is counted as indexed; in a single-batch
\* run the counts are the numbers of these documents.
C13_PartialFailureIsolation ==
  BatchOver =>
    /\ \A p \in BatchPaths(run.notes, run.i) :
         /\ run.bs[p].st \in {"fail", "skip", "inserted", "rejected"}
         /\ run.bs[p].st = "fail"
              => /\ run.outcome[p] = "failed"
                 /\ Len(items[p]) = (IF run.hadEntry[p] THEN 1 ELSE 0)
                 /\ run.existingIndex.fp[p] = run.fpAtStart[p]
         /\ (run.bs[p].st \notin {"skip", "fail"} /\ ~run.hadEntry[p])
              => /\ run.bs[p].st = "inserted"
                 /\ run.outcome[p] = "indexed"
                 /\ Len(items[p]) = 1
                 /\ items[p][1].src = run.bs[p].src
                 /\ run.existingIndex.fp[p] = run.bs[p].mt
    /\ run.i = 0 =>
         /\ run.indexed = CountSt(run, "inserted")
         /\ run.skipped = CountSt(run, "skip")
         /\ run.failed = CountSt(run, "fail") + CountSt(run, "rejected")

C13_Witness ==
  /\ BatchOver
  /\ Len(run.notes) = NumNotes
  /\ run.embedFailed = 1
  /\ run.indexed = NumNotes - 1
  /\ run.skipped = 0
  /\ run.failed = 1

\* The batches are over: the loop has ended or the call has returned.
LoopOver == run.pc \in {"finish", "save", "done"}

\* C14: indexVault goes through every batch and returns counts in which
\* every enumerated document is counted exactly once: indexed + skipped +
\* failed is the number of documents enumerated, each of them has one
\* outcome, and no other document has one.
C14_EveryDocumentCountedOnce ==
  /\ LoopOver =>
       /\ run.indexed + run.skipped + run.failed = Len(run.notes)
       /\ \A p \in MdPaths :
            IF \E j \in 1..Len(run.notes) : run.notes[j] = p
              THEN run.outcome[p] \in {"indexed", "skipped", "failed"}
              ELSE run.outcome[p] = "none"
       /\ run.indexed = Cardinality({p \in MdPaths : run.outcome[p] = "indexed"})
       /\ run.skipped = Cardinality({p \in MdPaths : run.outcome[p] = "skipped"})
       /\ run.failed = Cardinality({p \in MdPaths : run.outcome[p] = "failed"})
  /\ run.pc \in {"idle", "batch", "insert", "after", "finish", "save", "done"}

C14_Witness ==
  /\ run.pc = "done"
  /\ Len(run.notes) = NumNotes
  /\ run.failed >= 1
  /\ run.insertCalls > run.indexed

\* ===== The indexing worker's PID-file guard (obsidian-server.ts 1131-1237)
\* and the server's start-up indexing (index.ts 286-335), as processes of one
\* machine working on one vector store directory.  Each action is one step
\* between two awaits of a process; steps of different processes interleave.
guardRest == <<files, storeVars, proc, run, tasks, watchVars, bulk, decide, emb, search, order, life, hist>>

\* The process with this id exists.
ProcessRunning(pid) == pid \in Pids /\ workers[pid].pc \notin {"off", "exited"}

\* obsidian-server.ts 1154: process.kill(pid, 0) returns for a process that
\* exists and throws otherwise.
processKill0_Never(pid) == FALSE

processKill0(pid) == ProcessRunning(pid)

SetWorker(w, rec) == workers' = [workers EXCEPT ![w] = rec]

\* process.exit(code), obsidian-server.ts 1180, 1194, 1200, 1226, 1229
Exited(w, code, why) ==
  [workers[w] EXCEPT !.pc = "exited", !.status = code, !.how = why,
                     !.read = NoPid, !.armed = FALSE, !.signalled = FALSE]

\* obsidian-server.ts 1168-1175: the worker is launched and loads its config
WorkerStart(w) ==
  /\ workers[w].pc = "off"
  /\ SetWorker(w, [workers[w] EXCEPT !.pc = "read"])
  /\ UNCHANGED <<pidFile, guardRest>>

\* obsidian-server.ts 1149-1150, 1162-1165: fs.readFile of the PID file; no
\* file: isAnotherWorkerRunning returns false
WorkerReadPid(w) ==
  /\ workers[w].pc = "read"
  /\ SetWorker(w, IF pidFile = NoPid
                    THEN [workers[w] EXCEPT !.pc = "write", !.found = "none"]
                    ELSE [workers[w] EXCEPT !.pc = "probe", !.read = pidFile])
  /\ UNCHANGED <<pidFile, guardRest>>

\* obsidian-server.ts 1153-1157 and 1178-1181: the liveness probe; a live
\* process: the worker exits with status 0
WorkerProbe(w) ==
  /\ workers[w].pc = "probe"
  /\ LET seen == [workers[w] EXCEPT
                    !.found = IF ProcessRunning(workers[w].read) THEN "live" ELSE "dead"]
     IN SetWorker(w, IF processKill0(workers[w].read)
                       THEN [seen EXCEPT !.pc = "exited", !.status = 0, !.how = "guard",
                                         !.read = NoPid]
                       ELSE [seen EXCEPT !.pc = "stale", !.read = NoPid])
  /\ UNCHANGED <<pidFile, guardRest>>

\* obsidian-server.ts 1158-1160: removePidFile of the stale file (fs.unlink
\* of whatever file is there by now)
WorkerRemoveStale(w) ==
  /\ workers[w].pc = "stale"
  /\ pidFile' = NoPid
  /\ SetWorker(w, [workers[w] EXCEPT !.pc = "write",
                                     !.unlinked = @ \/ pidFile # NoPid])
  /\ UNCHANGED guardRest

\* obsidian-server.ts 1131-1136, 1184: writePidFile
WorkerWritePid(w) ==
  /\ workers[w].pc = "write"
  /\ pidFile' = w
  /\ SetWorker(w, [workers[w] EXCEPT !.pc = "wrote", !.wrote = TRUE])
  /\ UNCHANGED guardRest

\* obsidian-server.ts 1187-1210: the signal handlers are registered, the
\* VectorStore is created, initialize() is called
WorkerArm(w) ==
  /\ workers[w].pc = "wrote"
  /\ SetWorker(w, [workers[w] EXCEPT !.pc = "init", !.armed = TRUE, !.created = TRUE])
  /\ UNCHANGED <<pidFile, guardRest>>

\* obsidian-server.ts 1210-1217: initialize() returns, indexVault(false) starts
WorkerIndex(w) ==
  /\ workers[w].pc = "init"
  /\ SetWorker(w, [workers[w] EXCEPT !.pc = "index"])
  /\ UNCHANGED <<pidFile, guardRest>>

\* obsidian-server.ts 1217-1225: indexVault returns, cleanup() is called
WorkerIndexDone(w) ==
  /\ workers[w].pc = "index"
  /\ SetWorker(w, [workers[w] EXCEPT !.pc = "cleanup"])
  /\ UNCHANGED <<pidFile, guardRest>>

\* obsidian-server.ts 1225-1226: cleanup() has unlinked the PID file,
\* process.exit(0)
WorkerCleanup(w) ==
  /\ workers[w].pc = "cleanup"
  /\ pidFile' = NoPid
  /\ SetWorker(w, [Exited(w, 0, "done") EXCEPT !.unlinked = @ \/ pidFile # NoPid])
  /\ UNCHANGED guardRest

\* obsidian-server.ts 1227-1230: initialize() or indexVault() throws; the
\* catch block logs and calls process.exit(1)
WorkerFault(w) ==
  /\ workers[w].pc \in {"init", "index"}
  /\ SetWorker(w, Exited(w, 1, "fault"))
  /\ UNCHANGED <<pidFile, guardRest>>

\* Exit status of a process ended by a signal it does not handle.
KilledStatus == 128

\* SIGINT or SIGTERM is delivered (the two handlers are the same code).
\* Before the handlers are registered (obsidian-server.ts 1191, 1197) the
\* signal ends the process; after, the handler starts cleanup() (1193, 1199)
\* while main() goes on.
WorkerSignal(w) ==
  /\ workers[w].pc \notin {"off", "exited"}
  /\ ~workers[w].signalled
  /\ SetWorker(w, IF workers[w].armed
                    THEN [workers[w] EXCEPT !.signalled = TRUE]
                    ELSE Exited(w, KilledStatus, "killed"))
  /\ UNCHANGED <<pidFile, guardRest>>

\* obsidian-server.ts 1193-1194, 1199-1200: the handler's cleanup() has
\* unlinked the PID file, process.exit(0)
WorkerSignalExit(w) ==
  /\ workers[w].pc \notin {"off", "exited"}
  /\ workers[w].signalled
  /\ pidFile' = NoPid
  /\ SetWorker(w, [Exited(w, 0, "signal") EXCEPT !.unlinked = @ \/ pidFile # NoPid])
  /\ UNCHANGED guardRest

\* index.ts 286-299: the server is launched: new VectorStore, initialize().
\* Nothing in index.ts reads or writes the PID file.
ServerStart ==
  /\ workers[ServerPid].pc = "off"
  /\ SetWorker(ServerPid, [workers[ServerPid] EXCEPT !.pc = "init", !.created = TRUE])
  /\ UNCHANGED <<pidFile, guardRest>>

\* index.ts 320-327: the start-up decision says index: indexVault() starts
ServerIndex ==
  /\ workers[ServerPid].pc = "init"
  /\ SetWorker(ServerPid, [workers[ServerPid] EXCEPT !.pc = "index"])
  /\ UNCHANGED <<pidFile, guardRest>>

\* index.ts 326-335: indexVault() has returned (or start-up indexing was
\* skipped, 328-333): the server serves
ServerServe ==
  /\ workers[ServerPid].pc \in {"init", "index"}
  /\ SetWorker(ServerPid, [workers[ServerPid] EXCEPT !.pc = "serving"])
  /\ UNCHANGED <<pidFile, guardRest>>

\* The vector store directory before the processes start: no PID file, or
\* the file a worker that ended without cleanup has left.
InitGuard ==
  /\ files = InitFiles
  /\ items = NoItems
  /\ disk = NoItems
  /\ txOpen = FALSE
  /\ indexCreated = FALSE
  /\ metaFile = EmptyMetadata
  /\ pipeline = FALSE
  /\ proc = DownProc
  /\ run = IdleRun
  /\ tasks = {}
  /\ updateQueue = [p \in MdPaths |-> 0]
  /\ timers = {}
  /\ nextId = 0
  /\ bulk = IdleBulk
  /\ pidFile \in {NoPid, DeadPid}
  /\ workers = NoWorkers
  /\ emb = IdleEmb
  /\ search = NoSearch
  /\ order = IdleOrder
  /\ life = IdleLife
  /\ decide = NoDecision
  /\ hist = InitHist

NextGuard ==
  \/ \E w \in WorkerPids : WorkerStart(w)
  \/ \E w \in WorkerPids : WorkerReadPid(w)
  \/ \E w \in WorkerPids : WorkerProbe(w)
  \/ \E w \in WorkerPids : WorkerRemoveStale(w)
  \/ \E w \in WorkerPids : WorkerWritePid(w)
  \/ \E w \in WorkerPids : WorkerArm(w)
  \/ \E w \in WorkerPids : WorkerIndex(w)
  \/ \E w \in WorkerPids : WorkerIndexDone(w)
  \/ \E w \in WorkerPids : WorkerCleanup(w)
  \/ \E w \in WorkerPids : WorkerFault(w)
  \/ \E w \in WorkerPids : WorkerSignal(w)
  \/ \E w \in WorkerPids : WorkerSignalExit(w)

\* ----- SpecGuard: the indexing workers started against one directory
SpecGuard == InitGuard /\ [][NextGuard]_vars

NextGuardServer ==
  \/ NextGuard
  \/ ServerStart
  \/ ServerIndex
  \/ ServerServe

\* ----- SpecGuardServer: the indexing workers and the server
SpecGuardServer == InitGuard /\ [][NextGuardServer]_vars

RunningIndexVault(p) == workers[p].pc = "index"

\* C15 (singleton guard mutual exclusion): of the indexing workers started
\* against one index directory at most one runs indexVault, and while a
\* worker runs indexVault the PID file exists and holds that worker's
\* process id.
C15_GuardMutualExclusion ==
  /\ Cardinality({w \in WorkerPids : RunningIndexVault(w)}) <= 1
  /\ \A w \in WorkerPids : RunningIndexVault(w) => pidFile = w

\* C16 (the guard covers the server's start-up reindex): the server's
\* start-up indexVault and an indexing worker's indexVault never run at the
\* same time on the same vector index.
C16_ServerAndWorkerExclusive ==
  ~(RunningIndexVault(ServerPid) /\ \E w \in WorkerPids : RunningIndexVault(w))

\* C17 (singleton guard outcomes): a worker whose PID file names a live
\* process exits with status 0, having created no VectorStore, called no
\* indexVault and neither written nor deleted the PID file; a worker that
\* finds a dead process's id or no PID file does not exit at the guard, and
\* it touches the index only after the step that writes the PID file, which
\* leaves its own process id in the file.
GuardOutcomes ==
  \A w \in WorkerPids :
    /\ workers[w].found = "live"
         => /\ workers[w].pc = "exited"
            /\ workers[w].how = "guard"
            /\ workers[w].status = 0
            /\ ~workers[w].created
            /\ ~workers[w].wrote
            /\ ~workers[w].unlinked
    /\ workers[w].found \in {"dead", "none"} => workers[w].how # "guard"
    /\ (workers[w].created \/ workers[w].pc \in {"init", "index", "cleanup"})
         => /\ workers[w].wrote
            /\ workers[w].found \in {"dead", "none"}

WritesOwnPid ==
  \A w \in WorkerPids :
    (~workers[w].wrote /\ workers'[w].wrote) => pidFile' = w

C18_PidFileRemovedOnExit ==
  \A w \in WorkerPids :
    (workers[w].pc = "exited" /\ workers[w].wrote) => pidFile # w

\* ===== The server's start-up decision (index.ts 302-333) for every value of
\* vectorSearch.indexOnStartup, on the index states that earlier starts of
\* the server leave behind.
\* "true" and "false" are the booleans, "absent" is undefined.
IndexOnStartupValues == {"auto", "always", "never", "true", "false", "absent"}

NextStartup ==
  \/ \E kind \in IndexOnStartupValues, model \in Models : ProcStart(kind, model)
  \/ StartupIndex
  \/ StartupSkip
  \/ RunStep
  \/ ProcExit

SpecStartup == InitServer /\ [][NextStartup]_vars

\* C19 (start-up override): with indexOnStartup always or true the start-up
\* indexing runs whatever the index state and shouldReindex is not consulted;
\* with never or false no start-up indexing runs whatever the index state;
\* with any other or no value it runs if and only if shouldReindex returns
\* reindex = true.
StartupDecided ==
  proc.phase = "starting" =>
    /\ proc.kind \in {"always", "true"}
         => proc.shouldIndex /\ proc.reason.text = "always"
    /\ proc.kind \in {"never", "false"}
         => ~proc.shouldIndex /\ proc.reason.text = "disabled"
    /\ proc.kind \in {"auto", "absent"}
         => /\ proc.shouldIndex = shouldReindex(TRUE, metaFile, proc.model, items).reindex
            /\ proc.reason = shouldReindex(TRUE, metaFile, proc.model, items).reason

StartupFollowsDecision ==
  (proc.phase = "starting" /\ proc'.phase # "starting")
    => IF proc.kind \in {"always", "true"}
           \/ (proc.kind \in {"auto", "absent"}
               /\ shouldReindex(TRUE, metaFile, proc.model, items).reindex)
         THEN proc'.phase = "indexing" /\ run'.pc # "idle" /\ run'.origin = "startup"
         ELSE proc'.phase = "serving" /\ run' = run /\ run.pc = "idle"

IndexOf(S, model) == [p \in MdPaths |-> IF p \in S THEN <<Entry(model, 1)>> ELSE <<>>]

InitDecide ==
  /\ files = InitFiles
  /\ indexCreated \in BOOLEAN
  /\ items \in IF indexCreated
                 THEN {IndexOf(S, m) : S \in SUBSET MdPaths, m \in Models}
                 ELSE {NoItems}
  /\ disk = items
  /\ txOpen = FALSE
  /\ \E file \in FileStates, t \in BOOLEAN :
       decide = [NoDecision EXCEPT !.file = file, !.statsThrow = t]
  /\ metaFile \in IF decide.file = "ok"
                    THEN {[EmptyMetadata EXCEPT !.meta = m] : m \in Models \cup {NoModel}}
                    ELSE {EmptyMetadata}
  /\ pipeline = FALSE
  /\ \E m \in Models : proc = [ServingProc EXCEPT !.model = m]
  /\ run = IdleRun
  /\ tasks = {}
  /\ updateQueue = [p \in MdPaths |-> 0]
  /\ timers = {}
  /\ nextId = 0
  /\ bulk = IdleBulk
  /\ pidFile = NoPid
  /\ workers = NoWorkers
  /\ emb = IdleEmb
  /\ search = NoSearch
  /\ order = IdleOrder
  /\ life = IdleLife
  /\ hist = InitHist

\* vectorStore.shouldReindex() is called and returns
ShouldReindexCall ==
  /\ ~decide.done
  /\ decide' = [decide EXCEPT
       !.done = TRUE,
       !.out = shouldReindexCaught(indexCreated, decide.file, metaFile, proc.model,
                                   items, decide.statsThrow)]
  /\ UNCHANGED <<files, storeVars, proc, run, tasks, watchVars, bulk, pidFile, workers, emb,
                 search, order, life, hist>>

NextDecide == ShouldReindexCall

SpecDecide == InitDecide /\ [][NextDecide]_vars

\* The model record the call sees: none when the file is missing, corrupt
\* or holds no __meta__.
SeenModel == IF decide.file = "ok" THEN metaFile.meta ELSE NoModel

\* C20 (shouldReindex is an ordered first-match decision): no index gives
\* reindex with the first-time-setup reason; otherwise no model record
\* (a missing, corrupt or legacy metadata file) gives reindex; otherwise a
\* differing model gives reindex with a reason naming the stored and the
\* configured model; otherwise a document count of zero gives reindex;
\* otherwise reindex is false; an exception raised while evaluating gives
\* reindex = true, and the call always returns a result.
C20_ShouldReindexFirstMatch ==
  decide.done =>
    LET out == decide.out
        text == decide.out.reason.text
    IN /\ out.reindex \in BOOLEAN
       /\ IF ~indexCreated
            THEN out.reindex /\ text = "first-time setup"
          ELSE IF decide.file = "notObject"
            THEN out.reindex /\ text = "validation failed"
          ELSE IF SeenModel = NoModel
            THEN out.reindex /\ text = "legacy index"
          ELSE IF SeenModel # proc.model
            THEN /\ out.reindex
                 /\ text = "model changed"
                 /\ out.reason.from = metaFile.meta
                 /\ out.reason.to = proc.model
          ELSE IF decide.statsThrow
            THEN out.reindex /\ text = "validation failed"
          ELSE IF Cardinality({p \in MdPaths : items[p] # <<>>}) = 0
            THEN out.reindex /\ text = "index empty"
          ELSE ~out.reindex /\ text = "index valid"

\* The stored model differs from the configured one and the index is empty
\* as well: the earlier rule decides.
C20_Witness ==
  /\ decide.done
  /\ indexCreated
  /\ decide.file = "ok"
  /\ metaFile.meta \notin {NoModel, proc.model}
  /\ items = NoItems
  /\ decide.out.reindex
  /\ decide.out.reason.text = "model changed"

\* ===== removeNote (embeddings.ts 708-730) called on a store in which each
\* path has an entry or none and a fingerprint or none.  An entry without a
\* fingerprint is what indexSingleNote leaves when fs.stat fails after the
\* insert (673-689), a fingerprint without an entry what a removeNote ended
\* between deleteItem and saveIndexMetadata (715-720) leaves.
InitRemove ==
  /\ files = InitFiles
  /\ indexCreated = TRUE
  /\ items \in [MdPaths -> {<<>>, <<Entry(ServingProc.model, 1)>>}]
  /\ disk = items
  /\ txOpen = FALSE
  /\ metaFile \in {[fp |-> f, meta |-> ServingProc.model] : f \in [MdPaths -> {0, 1}]}
  /\ pipeline = FALSE
  /\ proc = ServingProc
  /\ run = IdleRun
  /\ tasks = {}
  /\ updateQueue = [p \in MdPaths |-> 0]
  /\ timers = {}
  /\ nextId = 0
  /\ bulk = IdleBulk
  /\ pidFile = NoPid
  /\ workers = NoWorkers
  /\ emb = IdleEmb
  /\ search = NoSearch
  /\ order = IdleOrder
  /\ life = IdleLife
  /\ decide = NoDecision
  /\ hist = InitHist

RemoveStep ==
  \E t \in tasks :
    \/ RemoveList(t)
    \/ RemoveDelete(t)
    \/ RemoveLoadMeta(t)
    \/ RemoveSave(t)

NextRemove ==
  \/ \E p \in MdPaths : CallSingle("remove", p)
  \/ RemoveStep

SpecRemove == InitRemove /\ [][NextRemove]_vars

RemoveInProgress(p) == Running("remove", p) # {}

\* The removeNote call for p returns in this step.
RemoveReturns(p) == RemoveInProgress(p) /\ ~(\E t \in tasks' : t.op = "remove" /\ t.path = p)

\* C21 (removeNote postcondition): when removeNote(path) returns, whatever
\* the path had before (entry and fingerprint, one of them, or neither), the
\* index has no entry for the path and the metadata file no fingerprint for
\* it, and no step of the call changes the entry or the fingerprint of
\* another path.
RemovePost ==
  \A p \in MdPaths :
    /\ RemoveReturns(p) => /\ items'[p] = <<>>
                           /\ disk'[p] = <<>>
                           /\ metaFile'.fp[p] = 0
    /\ RemoveInProgress(p) =>
         \A q \in MdPaths \ {p} : /\ items'[q] = items[q]
                                  /\ disk'[q] = disk[q]
                                  /\ metaFile'.fp[q] = metaFile.fp[q]

C21_RemovePostcondition == [][RemovePost]_vars

\* The last event on p was an unlink, its removeNote and every call
\* dispatched for p have returned, and no timer is pending for p.
UnlinkSettled(p) ==
  /\ hist.unlinked[p]
  /\ \A t \in tasks : t.path # p
  /\ TimersOf(p) = {}

\* C22 (no stale entry survives a delete): once an unlink event for a path
\* has been handled and every operation dispatched for the path has
\* finished, with no later add or change event for it, the index has no
\* entry and the metadata file no fingerprint for the path, also when the
\* unlink arrived while an indexSingleNote for the path was in progress.
C22_NoStaleEntryAfterUnlink ==
  \A p \in MdPaths :
    UnlinkSettled(p) => /\ items[p] = <<>>
                        /\ disk[p] = <<>>
                        /\ metaFile.fp[p] = 0

\* ===== The embedding calls, counted.  indexVault (embeddings.ts 286-302)
\* hands every document of a batch to processBatch, whose documents call
\* withTimeout(generateEmbedding(...)) (243-247), each when its read returns;
\* generateTransformerEmbedding (156-177) awaits pipeline() when
\* transformerPipeline is not set and then the pipeline itself.
\* Promise.race (28-33) settles the caller when the timer fires and leaves
\* the call it raced against running.  indexSingleNote awaits
\* generateEmbedding without a timer (662).  No document is skipped here.
embRest == <<files, storeVars, proc, run, tasks, watchVars, bulk, pidFile, workers,
             decide, search, order, life, hist>>

\* A serving process that has made no embedding call yet.
InitEmbed ==
  /\ files = InitFiles
  /\ items = NoItems
  /\ disk = NoItems
  /\ txOpen = FALSE
  /\ indexCreated = TRUE
  /\ metaFile = EmptyMetadata
  /\ pipeline = FALSE
  /\ proc = ServingProc
  /\ run = IdleRun
  /\ tasks = {}
  /\ updateQueue = [p \in MdPaths |-> 0]
  /\ timers = {}
  /\ nextId = 0
  /\ bulk = IdleBulk
  /\ pidFile = NoPid
  /\ workers = NoWorkers
  /\ decide = NoDecision
  /\ emb = IdleEmb
  /\ search = NoSearch
  /\ order = IdleOrder
  /\ life = IdleLife
  /\ hist = InitHist

\* Calls of the embedding provider started and not yet finished.
Outstanding ==
  emb.loading + emb.inferring + emb.abandonedLoading + emb.abandonedInferring

\* embeddings.ts 271-297: indexVault is called; the first batch is handed to
\* processBatch
EmbIndexVault ==
  /\ emb.pc = "idle"
  /\ emb.single = "idle"
  /\ emb' = [emb EXCEPT !.pc = "batch", !.batch = 1, !.todo = BATCH_SIZE]
  /\ UNCHANGED embRest

\* embeddings.ts 243-247 and 158-164: a document of the batch calls
\* generateEmbedding under withTimeout: pipeline() is called when
\* transformerPipeline is not set
EmbGenerate ==
  /\ emb.pc = "batch"
  /\ emb.todo > 0
  /\ emb' = IF emb.loaded
              THEN [emb EXCEPT !.todo = @ - 1, !.inferring = @ + 1]
              ELSE [emb EXCEPT !.todo = @ - 1, !.loading = @ + 1,
                               !.loads = Min(@ + 1, MaxLoads)]
  /\ UNCHANGED embRest

\* embeddings.ts 160-170: pipeline() returns: transformerPipeline is set and
\* the pipeline is called
EmbPipelineLoaded ==
  /\ emb.loading > 0
  /\ emb' = [emb EXCEPT !.loading = @ - 1, !.inferring = @ + 1, !.loaded = TRUE]
  /\ UNCHANGED embRest

\* embeddings.ts 167-176: the pipeline returns a vector or throws: the
\* document's caller is settled
EmbInferred ==
  /\ emb.inferring > 0
  /\ emb' = [emb EXCEPT !.inferring = @ - 1]
  /\ UNCHANGED embRest

\* embeddings.ts 28-33: the timer of withTimeout fires before the call has
\* returned: the caller is settled with an error, the call goes on
EmbTimeout ==
  /\ \/ /\ emb.loading > 0
        /\ emb' = [emb EXCEPT !.loading = @ - 1, !.abandonedLoading = @ + 1]
     \/ /\ emb.inferring > 0
        /\ emb' = [emb EXCEPT !.inferring = @ - 1, !.abandonedInferring = @ + 1]
  /\ UNCHANGED embRest

\* embeddings.ts 160-170, for a call whose caller has timed out
EmbAbandonedLoaded ==
  /\ emb.abandonedLoading > 0
  /\ emb' = [emb EXCEPT !.abandonedLoading = @ - 1, !.abandonedInferring = @ + 1,
                        !.loaded = TRUE]
  /\ UNCHANGED embRest

\* embeddings.ts 167-176, for a call whose caller has timed out
EmbAbandonedInferred ==
  /\ emb.abandonedInferring > 0
  /\ emb' = [emb EXCEPT !.abandonedInferring = @ - 1]
  /\ UNCHANGED embRest

\* embeddings.ts 218-263 and 290-378: every document of the batch is
\* settled: Promise.all resolves, the results are inserted, and the next
\* batch is handed to processBatch (or the run ends, 380-403)
EmbBatchDone ==
  /\ emb.pc = "batch"
  /\ emb.todo = 0 /\ emb.loading = 0 /\ emb.inferring = 0
  /\ emb' = IF emb.batch < MaxBatches
              THEN [emb EXCEPT !.batch = @ + 1, !.todo = BATCH_SIZE]
              ELSE [emb EXCEPT !.pc = "done"]
  /\ UNCHANGED embRest

\* embeddings.ts 640-662: indexSingleNote is called and awaits
\* generateEmbedding
EmbSingleCall ==
  /\ emb.pc = "idle"
  /\ emb.single = "idle"
  /\ emb' = [emb EXCEPT !.single = "embedding"]
  /\ UNCHANGED embRest

\* embeddings.ts 662-703: generateEmbedding returns or throws; indexSingleNote
\* goes on and returns
EmbSingleReturn ==
  /\ emb.single = "embedding"
  /\ emb' = [emb EXCEPT !.single = "returned"]
  /\ UNCHANGED embRest

NextEmbed ==
  \/ EmbIndexVault
  \/ EmbGenerate
  \/ EmbPipelineLoaded
  \/ EmbInferred
  \/ EmbTimeout
  \/ EmbAbandonedLoaded
  \/ EmbAbandonedInferred
  \/ EmbBatchDone
  \/ EmbSingleCall
  \/ EmbSingleReturn

SpecEmbed == InitEmbed /\ [][NextEmbed]_vars

\* The steps of the program and its timers are taken when they can be; the
\* embedding provider may never return.
SpecEmbedLive ==
  /\ SpecEmbed
  /\ WF_vars(EmbIndexVault)
  /\ WF_vars(EmbGenerate)
  /\ WF_vars(EmbTimeout)
  /\ WF_vars(EmbBatchDone)

\* C23 (embedding timeout): every embedding request ends for its caller with
\* a vector or a failure once the timeout has elapsed, so indexVault and
\* indexSingleNote both return even when the provider never does.
C23_EmbeddingTimeout ==
  /\ (emb.pc = "batch") ~> (emb.pc = "done")
  /\ (emb.single = "embedding") ~> (emb.single = "returned")

\* C24 (peak embedding concurrency): during indexVault the number of
\* embedding-provider calls started and not yet finished never exceeds the
\* batch size, the calls abandoned by the timeout included.
C24_PeakEmbeddingConcurrency == Outstanding <= BATCH_SIZE

\* C29 (lazy load once): the embedding model is loaded at most once per
\* process when no reset occurs, also when the first embedding calls are
\* issued concurrently by the documents of one batch.
C29_ModelLoadedOnce == emb.loads <= 1

\* ===== The server's start-up followed by its watcher (index.ts 286-411)
\* index.ts 339-352: chokidar.watch is called after the start-up block
\* (322-333) has been left; a start-up indexVault that throws leaves main's
\* try block (415-419) and no watcher is created.
watcherArmed_AtStart == proc.phase # "down"

watcherArmed == proc.phase = "serving"

\* index.ts 359-411: the handlers of the watcher's events
WatcherEvent ==
  /\ watcherArmed
  /\ \E p \in WatchPaths : OnAdd(p) \/ OnChange(p) \/ OnUnlink(p)

NextArm ==
  \/ \E kind \in {"always", "never", "auto"} : ProcStart(kind, ServingProc.model)
  \/ StartupIndex
  \/ StartupSkip
  \/ RunStep
  \/ WatcherEvent
  \/ \E t \in timers : TimerFire(t)
  \/ Tick

\* ----- SpecArm: one start of the server, then the watcher's events and
\* timers up to the dispatch of indexSingleNote and removeNote (SpecWatch
\* follows the dispatched calls)
SpecArm == InitServer /\ [][NextArm]_vars

StartupRunActive == run.origin = "startup" /\ ~NoRunActive

\* C25 (reindex before watch): the watcher is armed only after the start-up
\* indexVault has returned: while the start-up run is in progress (its
\* transaction open) no debounce timer is set and no indexSingleNote or
\* removeNote has been dispatched.
C25_ReindexBeforeWatch ==
  /\ (StartupRunActive \/ (txOpen /\ run.origin = "startup"))
       => tasks = {} /\ timers = {}
  /\ (tasks # {} \/ timers # {}) => proc.phase = "serving"

\* After a start-up run that has returned, an unlink has dispatched
\* removeNote.
C25_Witness ==
  /\ run.origin = "startup"
  /\ run.pc = "done"
  /\ ~txOpen
  /\ \E t \in tasks : t.op = "remove"

\* ===== The obsidian_semantic_search tool (obsidian-server.ts 820-852) with
\* VectorStore.search and hybridSearch (embeddings.ts 445-524) as functions
\* of the similarity of every indexed note to the query, the keyword
\* results, limit and min_score.  Similarities, keyword scores and min_score
\* are in tenths (0..10); the scores of the results are in hundredths.
Scores == {0, 5, 10}
Hit(p, score) == [path |-> p, score |-> score]

\* The sets of hits with at most one hit per note
HitSets == UNION {{ {Hit(p, f[p]) : p \in S} : f \in [S -> Scores] } : S \in SUBSET MdPaths}

Take(seq, n) == SubSeq(seq, 1, Min(n, Len(seq)))

\* The hits of a set in the order of their paths
ByPath(hits) ==
  LET paths == SortedSeq({h.path : h \in hits})
  IN [i \in 1..Len(paths) |-> CHOOSE g \in hits : g.path = paths[i]]

\* Array.prototype.sort((a, b) => b.score - a.score): descending, stable
RECURSIVE SortByScore(_)
SortByScore(seq) ==
  IF seq = <<>> THEN <<>>
  ELSE LET top == CHOOSE i \in 1..Len(seq) :
                    /\ \A j \in 1..Len(seq) : seq[j].score <= seq[i].score
                    /\ \A j \in 1..(i - 1) : seq[j].score < seq[i].score
       IN <<seq[top]>> \o SortByScore(SubSeq(seq, 1, top - 1) \o SubSeq(seq, top + 1, Len(seq)))

\* vectra queryItems(vector, "", topK): the topK most similar items, most
\* similar first
queryItems(sem, topK) == Take(SortByScore(ByPath(sem)), topK)

\* embeddings.ts 445-477: search
vectorSearch(sem, limit, minScore) ==
  LET results == queryItems(sem, limit + QUERY_MARGIN)
      kept == SelectSeq(results, LAMBDA r : r.score >= minScore)
  IN [i \in 1..Min(limit, Len(kept)) |-> Hit(kept[i].path, kept[i].score * 10)]

\* embeddings.ts 501-518: the keyword results are merged into the map, in
\* their order
RECURSIVE MergeKeyword(_, _)
MergeKeyword(combined, kws) ==
  IF kws = <<>> THEN combined
  ELSE LET k == Head(kws)
           at == {i \in 1..Len(combined) : combined[i].path = k.path}
       IN MergeKeyword(
            IF at # {}
              THEN [i \in 1..Len(combined) |->
                      IF i \in at
                        THEN Hit(k.path, combined[i].score + k.score * KEYWORD_WEIGHT)
                        ELSE combined[i]]
              ELSE Append(combined, Hit(k.path, k.score * KEYWORD_WEIGHT)),
            Tail(kws))

\* embeddings.ts 482-524: hybridSearch
hybridSearch(sem, keywordResults, limit, minScore) ==
  LET semanticResults == vectorSearch(sem, limit, minScore)
      weighted == [i \in 1..Len(semanticResults) |->
                     Hit(semanticResults[i].path,
                         (semanticResults[i].score \div 10) * SEMANTIC_WEIGHT)]
      merged == MergeKeyword(weighted, keywordResults)
  IN Take(SortByScore(merged), limit)

\* The keyword results of searchVault, at most limit of them
\* (obsidian-server.ts 825-841), in the order of their paths
KeywordSeq(kw, limit) == Take(ByPath(kw), limit)

InitSearch ==
  /\ files = InitFiles
  /\ items = NoItems
  /\ disk = NoItems
  /\ txOpen = FALSE
  /\ indexCreated = TRUE
  /\ metaFile = EmptyMetadata
  /\ pipeline = FALSE
  /\ proc = ServingProc
  /\ run = IdleRun
  /\ tasks = {}
  /\ updateQueue = [p \in MdPaths |-> 0]
  /\ timers = {}
  /\ nextId = 0
  /\ bulk = IdleBulk
  /\ pidFile = NoPid
  /\ workers = NoWorkers
  /\ decide = NoDecision
  /\ emb = IdleEmb
  /\ order = IdleOrder
  /\ life = IdleLife
  /\ \E sem \in HitSets, kw \in HitSets, limit \in 1..NumNotes, minScore \in Scores,
        hybrid \in BOOLEAN :
       search = [NoSearch EXCEPT !.sem = sem, !.kw = kw, !.limit = limit,
                                 !.minScore = minScore, !.hybrid = hybrid]
  /\ hist = InitHist

\* obsidian-server.ts 820-852: the tool's handler calls hybridSearch or search
SemanticSearchCall ==
  /\ ~search.done
  /\ search' = [search EXCEPT
       !.done = TRUE,
       !.results = IF search.hybrid
                     THEN hybridSearch(search.sem, KeywordSeq(search.kw, search.limit),
                                       search.limit, search.minScore)
                     ELSE vectorSearch(search.sem, search.limit, search.minScore)]
  /\ UNCHANGED <<files, storeVars, proc, run, tasks, watchVars, bulk, pidFile, workers,
                 decide, emb, order, life, hist>>

NextSearch == SemanticSearchCall

SpecSearch == InitSearch /\ [][NextSearch]_vars

\* C26 (semantic search bounds): the tool returns at most limit results,
\* every result has a score of at least min_score, in semantic and in
\* hybrid mode; in hybrid mode each path appears at most once and the
\* results are in order of non-increasing combined score.
C26_SearchBounds ==
  search.done =>
    LET r == search.results
    IN /\ Len(r) <= search.limit
       /\ \A i \in 1..Len(r) : r[i].score >= search.minScore * 10
       /\ search.hybrid =>
            /\ \A i, j \in 1..Len(r) : i # j => r[i].path # r[j].path
            /\ \A i \in 1..(Len(r) - 1) : r[i].score >= r[i + 1].score

\* ===== The insert loop of indexVault over a list of MaxDocs documents
\* (embeddings.ts 290-342): the documents of a batch are embedded
\* concurrently and settle in any order; their results are inserted by a
\* loop that awaits each insertItem.  The document at position j of the
\* list is j.
orderRest == <<files, storeVars, proc, run, tasks, watchVars, bulk, pidFile, workers,
               decide, emb, search, life, hist>>

Docs == 1..MaxDocs
OrderNotes == [j \in Docs |-> j]

\* notes.slice(i, i + BATCH_SIZE): the documents of the batch are to do
OrderBatch(i) ==
  [d \in Docs |-> IF d \in BatchPositions(OrderNotes, i) THEN "todo" ELSE "out"]

\* The batch a document of the list belongs to
BatchOf(d) == (d - 1) \div BATCH_SIZE

\* embeddings.ts 276-291: the call, up to the first batch
OrderCall ==
  /\ order.pc = "idle"
  /\ order' = [IdleOrder EXCEPT !.pc = "batch", !.st = OrderBatch(0)]
  /\ UNCHANGED orderRest

\* embeddings.ts 218-263: the promise of one document settles, with a result
\* (ok) or with null (skipped or failed); Promise.all resolves with the last
OrderSettle(d, ok) ==
  /\ order.pc = "batch"
  /\ order.st[d] = "todo"
  /\ LET st2 == [order.st EXCEPT ![d] = IF ok THEN "ok" ELSE "null"]
     IN order' = [order EXCEPT
          !.st = st2,
          !.late = @ \/ (ok /\ \E e \in Docs : e > d /\ order.st[e] = "ok"),
          !.pc = IF \A e \in Docs : st2[e] # "todo" THEN "insert" ELSE "batch"]
  /\ UNCHANGED orderRest

\* The results of the batch the loop has not reached yet
OrderPending(o) == {d \in Docs : o.st[d] = "ok"}

\* embeddings.ts 308-309: for (const result of results), nulls passed over:
\* results has the order of the batch, which has the order of the list
OrderNext(o) == CHOOSE d \in OrderPending(o) : \A e \in OrderPending(o) : d <= e

\* A faulty loop that does not wait for an insert before the next.
insertAwaited_Detached(o) == TRUE

\* embeddings.ts 317: await this.index.insertItem(...): the loop goes on
\* when the call has returned
insertAwaited(o) == o.inflight = {}

\* embeddings.ts 308-329: the loop issues the insert of its next result
OrderInsertIssue ==
  /\ order.pc = "insert"
  /\ OrderPending(order) # {}
  /\ insertAwaited(order)
  /\ LET d == OrderNext(order)
     IN order' = [order EXCEPT !.st[d] = "issued",
                               !.inflight = @ \cup {d},
                               !.log = Append(@, d)]
  /\ UNCHANGED orderRest

\* insertItem returns (or throws: embeddings.ts 338-341)
OrderInsertReturn(d) ==
  /\ d \in order.inflight
  /\ order' = [order EXCEPT !.inflight = @ \ {d}, !.st[d] = "inserted"]
  /\ UNCHANGED orderRest

\* embeddings.ts 344-378 and 290: the loop is over, the next batch or the end
OrderAfterBatch ==
  /\ order.pc = "insert"
  /\ OrderPending(order) = {}
  /\ insertAwaited(order)
  /\ LET i2 == order.i + BATCH_SIZE
     IN order' = [order EXCEPT
          !.i = i2,
          !.st = IF i2 < MaxDocs THEN OrderBatch(i2) ELSE IdleOrder.st,
          !.pc = IF i2 < MaxDocs THEN "batch" ELSE "done"]
  /\ UNCHANGED orderRest

\* ----- SpecOrder: one indexVault call over MaxDocs documents, its inserts
NextOrder ==
  \/ OrderCall
  \/ \E d \in Docs, ok \in BOOLEAN : OrderSettle(d, ok)
  \/ OrderInsertIssue
  \/ \E d \in Docs : OrderInsertReturn(d)
  \/ OrderAfterBatch

\* A serving process on a vault in which every note is there
InitOrder == Init /\ files = InitFiles

SpecOrder == InitOrder /\ [][NextOrder]_vars

\* C27 (insertion order): the inserts of indexVault are issued one after
\* another, never two at once, in the order of the input document list,
\* whatever order the embeddings completed in; every insert of a batch
\* precedes every insert of the next batch.
C27_InsertionOrder ==
  /\ Cardinality(order.inflight) <= 1
  /\ \A a, b \in 1..Len(order.log) :
       /\ a < b => order.log[a] < order.log[b]
       /\ BatchOf(order.log[a]) < BatchOf(order.log[b]) => a < b
  /\ \A d \in order.inflight : order.log[Len(order.log)] = d

\* The call is over, every document of two batches was inserted, and in a
\* batch an embedding completed after that of a later document.
C27_Witness ==
  /\ order.pc = "done"
  /\ order.late
  /\ Len(order.log) = MaxDocs
  /\ BatchOf(order.log[1]) # BatchOf(order.log[MaxDocs])

\* C28 (transaction discipline of indexVault): a transaction is open when
\* the inserts of a batch are issued; beginUpdate is never called while a
\* transaction is open and endUpdate never when none is; when the call
\* returns no transaction is open, the index metadata records the
\* configured model and provider, and the fingerprints of every document
\* the run indexed, the in-memory map, are in the metadata file.
C28_TransactionDiscipline ==
  /\ bulk.pc = "batch" => bulk.tx
  /\ bulk.pc = "beginUpdate" => ~bulk.tx
  /\ bulk.pc \in {"endUpdate", "finish"} => bulk.tx
  /\ bulk.pc = "done" =>
       /\ ~bulk.tx
       /\ bulk.metaSaved = Meta(proc.model, Provider)
       /\ bulk.metaSaved.model \in Models
       /\ bulk.saved = bulk.indexed
       /\ bulk.flushed = bulk.indexed

\* A call that made a checkpoint has returned.
C28_Witness ==
  /\ bulk.pc = "done"
  /\ bulk.checkpoints > 0
  /\ bulk.indexed > CHECKPOINT_INTERVAL

\* ===== indexVault on a vault indexed before: each note, last saved at
\* time 1, has no fingerprint, or the fingerprint of time 1, or that of a
\* later version of the file which an older one has replaced since; a note
\* with a fingerprint has its entry in the index.  The process makes one
\* more indexVault call.
Mtimes == {1, 2}

InitSkip ==
  /\ files = InitFiles
  /\ \E fp \in [MdPaths -> {0} \cup Mtimes] :
       /\ metaFile = [fp |-> fp, meta |-> ServingProc.model]
       /\ items = [p \in MdPaths |->
                     IF fp[p] # 0 THEN <<Entry(ServingProc.model, fp[p])>> ELSE <<>>]
  /\ disk = items
  /\ txOpen = FALSE
  /\ indexCreated = TRUE
  /\ pipeline = FALSE
  /\ proc = ServingProc
  /\ run = IdleRun
  /\ tasks = {}
  /\ updateQueue = [p \in MdPaths |-> 0]
  /\ timers = {}
  /\ nextId = 0
  /\ bulk = IdleBulk
  /\ pidFile = NoPid
  /\ workers = NoWorkers
  /\ decide = NoDecision
  /\ emb = IdleEmb
  /\ search = NoSearch
  /\ order = IdleOrder
  /\ life = IdleLife
  /\ hist = [InitHist EXCEPT !.calls = MaxCalls - 1]

\* ----- SpecSkip: the indexVault calls of a serving process on such a
\* vault, which may change during a call
NextSkip ==
  \/ \E force \in BOOLEAN : CallIndexVault(force)
  \/ RunStep
  \/ FsChange

SpecSkip == InitSkip /\ [][NextSkip]_vars

\* The step in which the skip test of document p is made
SkipTested(p) == run.pc = "batch" /\ run.bs[p].st = "todo" /\ run'.bs[p].st # "todo"

\* The document is skipped exactly when the call is not forced and the
\* fingerprint of its path equals the current mtime of the file; in a forced
\* call the document is read.
SkipDecision ==
  \A p \in MdPaths :
    SkipTested(p) =>
      /\ run'.bs[p].st = "skip"
           <=> /\ ~run.force
               /\ run.existingIndex.fp[p] # 0
               /\ Exists(p)
               /\ run.existingIndex.fp[p] = Mtime(p)
      /\ run'.bs[p].st = "skip" => run'.embedCalls = run.embedCalls
      /\ run.force /\ Exists(p) => run'.bs[p].st = "read"

\* What the run does not do to a document it skipped: no read, no entry
\* written, no fingerprint changed, in memory or in the file
SkipFrame ==
  \A p \in MdPaths :
    (run.outcome[p] = "skipped" /\ run'.outcome[p] = "skipped") =>
      /\ run'.bs[p].st \in {"skip", "out"}
      /\ items'[p] = items[p]
      /\ disk'[p] = disk[p]
      /\ run'.existingIndex.fp[p] = run.existingIndex.fp[p]
      /\ metaFile'.fp[p] = metaFile.fp[p]

\* The counts of the run: no embedding call is made for a skipped document;
\* a forced run skips nothing and, when no file changed during it, has asked
\* for the embedding of every document.
SkipCounts ==
  /\ run.embedCalls + Cardinality({p \in MdPaths : run.outcome[p] = "skipped"})
       <= Len(run.notes)
  /\ \A p \in MdPaths : run.outcome[p] = "skipped" => metaFile.fp[p] = run.fpAtStart[p]
  /\ run.force =>
       /\ run.skipped = 0
       /\ \A p \in MdPaths : run.outcome[p] # "skipped"
       /\ (LoopOver /\ ~hist.disturbed) => run.embedCalls = Len(run.notes)

\* C30 (skip decision and its frame): with forceReindex false a document is
\* skipped if and only if a fingerprint exists for its path whose
\* lastModified equals the current mtime of the file; a skipped document is
\* not read, not embedded, not written to the index, and its fingerprint
\* does not change; with forceReindex true no document is skipped and every
\* document is read and embedded.
C30_SkipDecisionAndFrame ==
  []SkipCounts /\ [][SkipDecision /\ SkipFrame]_vars

\* A run that was not forced has returned and no file changed during it:
\* it skipped a document and asked for the embedding of another, whose
\* fingerprint differed from the mtime of its file.
C30_Witness ==
  /\ run.pc = "done"
  /\ ~run.force
  /\ ~hist.disturbed
  /\ run.embedCalls = 1
  /\ \E p, q \in MdPaths :
       /\ run.outcome[p] = "skipped"
       /\ run.outcome[q] # "skipped"
       /\ Exists(q)
       /\ run.fpAtStart[q] \notin {0, Mtime(q)}

\* ===== The transformer pipeline during an indexVault call over LongCorpus
\* documents, counted (embeddings.ts 156-196 and 290-378): a batch is one
\* step; what matters of it is how many of its documents were indexed and
\* whether a provider call outlived its caller's timeout.
lifeRest == <<files, storeVars, proc, run, tasks, watchVars, bulk, pidFile, workers,
              decide, emb, search, order, hist>>

\* embeddings.ts 276-291: the call, up to the first batch
LifeCall ==
  /\ life.pc = "idle"
  /\ life' = [IdleLife EXCEPT !.pc = "batch"]
  /\ UNCHANGED lifeRest

\* embeddings.ts 376-378 and 290: the pause, i += BATCH_SIZE, the loop test
LifeAdvance(l) ==
  LET i2 == l.i + BATCH_SIZE
  IN [l EXCEPT !.i = i2, !.pc = IF i2 < LongCorpus THEN "batch" ELSE "done"]

\* embeddings.ts 290-365: one batch: ok of its documents are embedded and
\* inserted; timedOut: the embedding of another timed out and its provider
\* call goes on (embeddings.ts 24-35).  The first embedding call that finds
\* no pipeline loads the model (158-164).  Then the refresh test.
LifeBatch(ok, timedOut) ==
  /\ life.pc = "batch"
  /\ LET size == Min(BATCH_SIZE, LongCorpus - life.i)
         called == ok > 0 \/ timedOut
         l == [life EXCEPT !.indexed = @ + ok,
                           !.abandoned = @ \/ timedOut,
                           !.loaded = @ \/ called,
                           !.loads = IF called /\ ~life.loaded THEN @ + 1 ELSE @]
     IN /\ ok + (IF timedOut THEN 1 ELSE 0) <= size
        /\ life' = IF RefreshDue(l.indexed)
                     THEN [l EXCEPT !.pc = "dispose"]
                     ELSE LifeAdvance(l)
  /\ UNCHANGED lifeRest

\* The provider call of a timed-out embedding returns at last.
LifeAbandonedDone ==
  /\ life.abandoned
  /\ life' = [life EXCEPT !.abandoned = FALSE]
  /\ UNCHANGED lifeRest

\* embeddings.ts 370 and 182-196: disposeTransformerPipeline
LifeDispose ==
  /\ life.pc = "dispose"
  /\ life' = [life EXCEPT !.pc = "pause",
                          !.resets = @ + 1,
                          !.loaded = FALSE,
                          !.inUse = @ \/ (life.loaded /\ life.abandoned)]
  /\ UNCHANGED lifeRest

\* embeddings.ts 372-378: the pause after the disposal, then the next batch
LifePause ==
  /\ life.pc = "pause"
  /\ life' = LifeAdvance(life)
  /\ UNCHANGED lifeRest

\* ----- SpecLife: one indexVault call over LongCorpus documents
NextLife ==
  \/ LifeCall
  \/ \E ok \in 0..BATCH_SIZE, timedOut \in BOOLEAN : LifeBatch(ok, timedOut)
  \/ LifeAbandonedDone
  \/ LifeDispose
  \/ LifePause

SpecLife == InitOrder /\ [][NextLife]_vars

\* C31 (lifecycle reset every 500 indexed documents): when a batch of
\* indexVault is about to start, the pipeline has been disposed once for
\* every multiple of PIPELINE_REFRESH_INTERVAL the indexed count has
\* reached or passed; after a disposal no pipeline is set, so that the next
\* embedding call loads the model again.
C31_LifecycleReset ==
  /\ life.pc = "batch" => life.resets >= life.indexed \div PIPELINE_REFRESH_INTERVAL
  /\ life.pc = "pause" => ~life.loaded

\* C33 (no disposal of a model in use): the pipeline is never disposed
\* while a provider call that uses it is running, a call whose caller gave
\* up on it through the timeout included.
C33_NoDisposeInUse == ~life.inUse

\* C32 (no checkpoint repeated without progress): within one indexVault
\* call a checkpoint is made at most once for each multiple of
\* CHECKPOINT_INTERVAL the indexed count reaches; a batch that indexes no
\* document makes none.
C32_NoRepeatWithoutProgress ==
  bulk.checkpoints <= bulk.indexed \div CHECKPOINT_INTERVAL

\* C34 (pending-queue bookkeeping): the update map has an entry for a path
\* exactly while a timer that has not fired is scheduled for the path, and
\* after an unlink no indexSingleNote is dispatched for the path unless a
\* later add or change event arrives.
C34_PendingQueueBookkeeping ==
  \A p \in MdPaths :
    /\ updateQueue[p] # 0 <=> TimersOf(p) # {}
    /\ hist.unlinked[p] => hist.indexAfterUnlink[p] = 0

\* ===== Single-document calls on different paths, dispatched while others
\* are in progress (index.ts 371 and 407): the notes, in the order of their
\* paths, get one call each, an indexSingleNote or a removeNote, whose
\* embedding does not fail.
PairDispatch(op) ==
  /\ hist.calls < NumNotes
  /\ LET p == hist.calls + 1
     IN tasks' = tasks \cup {NewTask(p, op, p, FALSE)}
  /\ hist' = [hist EXCEPT !.calls = @ + 1]
  /\ UNCHANGED <<files, storeVars, proc, auxVars, run, watchVars>>

\* ----- SpecPair: the server after a start-up run that indexed every note,
\* and one call for each note
NextPair ==
  \/ \E op \in {"index", "remove"} : PairDispatch(op)
  \/ \E t \in tasks :
       \/ TaskRead(t)
       \/ TaskEmbed(t, TRUE)
       \/ TaskList(t)
       \/ TaskDelete(t)
       \/ TaskInsert(t)
       \/ TaskLoadMeta(t)
       \/ TaskSave(t)
       \/ RemoveList(t)
       \/ RemoveDelete(t)
       \/ RemoveLoadMeta(t)
       \/ RemoveSave(t)

SpecPair == InitWatch /\ [][NextPair]_vars

\* Every note has had its call and every call has returned.  None has
\* failed: no file is missing and no embedding fails.  The notes that were
\* removed are those with no entry in the index.
PairDone == hist.calls = NumNotes /\ tasks = {}

\* C35 (no lost fingerprint update): when indexSingleNote and removeNote
\* calls for different paths have run interleaved and have all returned
\* without error, the metadata file has a fingerprint for every path that
\* was indexed and none for a path that was removed.
C35_NoLostFingerprintUpdate ==
  PairDone =>
    \A p \in MdPaths :
      /\ Len(items[p]) > 0 => metaFile.fp[p] # 0
      /\ Len(items[p]) = 0 => metaFile.fp[p] = 0

\* C36 (fingerprint matches embedded content under concurrent edits):
\* whenever the metadata file has a fingerprint of mtime m for a path, the
\* entry of the path in the index was computed from the content the file
\* had at mtime m, also when the file is modified between the read of its
\* content and the later read of its mtime.
C36_FingerprintMatchesContent ==
  \A p \in MdPaths :
    metaFile.fp[p] # 0 =>
      \A k \in 1..Len(items[p]) : items[p][k].src = metaFile.fp[p]

\* ----- SpecDurable: the server after a start-up run that indexed every
\* note, and its indexSingleNote calls, one after another, over a changing
\* vault.  What a crash at any step leaves is what is on disk in that
\* state: index.json (disk) and index-metadata.json (metaFile).
NextDurable ==
  \/ \E p \in MdPaths : CallSingle("index", p)
  \/ \E t \in tasks :
       \/ TaskRead(t)
       \/ \E ok \in BOOLEAN : TaskEmbed(t, ok)
       \/ TaskList(t)
       \/ TaskDelete(t)
       \/ TaskInsert(t)
       \/ TaskLoadMeta(t)
       \/ TaskSave(t)
  \/ FsChange

SpecDurable == InitWatch /\ [][NextDurable]_vars

\* C37 (vectors are durable before fingerprints): in every state a crash
\* can leave, each fingerprint in the metadata file belongs to a path that
\* has an entry in the index on disk.
C37_VectorsDurableBeforeFingerprints ==
  \A p \in MdPaths : metaFile.fp[p] # 0 => Len(disk[p]) > 0

\* An indexSingleNote call that has got no further than its embedding
BeforeWrites(t) == t.op = "index" /\ t.pc \in {"read", "embed"}

\* The call returns in this step: its file is missing, its name does not
\* end in .md, or its read or its embedding has failed
ReturnsEarly(t) == BeforeWrites(t) /\ tasks' = tasks \ {t}

\* C38 (indexSingleNote and removeNote never throw, and a failed
\* indexSingleNote changes nothing): every call ends by returning to its
\* caller, and an indexSingleNote call for a path whose file is missing,
\* whose name does not end in .md, or whose read or embedding fails has
\* left the index, in memory and on disk, and the metadata file as they
\* were, at each of its steps up to its return.
C38_FailedIndexOneChangesNothing ==
  [][\A t \in tasks :
       /\ BeforeWrites(t) => items' = items /\ disk' = disk /\ metaFile' = metaFile
       /\ ReturnsEarly(t) => updateQueue' = updateQueue /\ hist'.streak.err = hist.streak.err]_vars

\* A note was indexed, and of two indexSingleNote calls in a row on the
\* unchanged file one has failed at its embedding: the entry and the
\* fingerprint are there.
C38_Witness ==
  /\ TwiceInARow
  /\ hist.streak.oks = 1
  /\ ~hist.streak.err
  /\ Exists(hist.streak.path)
  /\ Len(items[hist.streak.path]) = 1
  /\ metaFile.fp[hist.streak.path] = Mtime(hist.streak.path)

\* ===== The watcher's filters (index.ts 339-411): chokidar reports no event
\* for a path that matches its ignored list; the handlers return at once
\* for a path that does not end in .md.  The last note of the vault lies
\* under a folder of the ignored list.

\* A faulty watcher with an empty ignored list.
ignored_Nothing(p) == FALSE

\* The notes under a folder of the ignored list
UnderIgnored == {NumNotes}

\* index.ts 340-345: ignored: dot files and folders, node_modules,
\* .obsidian, _data
ignored(p) == p \in UnderIgnored

\* The paths whose files change: a file that is no note, a note, and the
\* note under the ignored folder
FilterPaths == OtherPaths \cup {1, NumNotes}

\* A file under an ignored folder is saved, deleted or created: the watcher
\* reports nothing.
IgnoredChange(p) ==
  /\ ignored(p)
  /\ hist.changes < MaxChanges
  /\ \/ FsTouch(p)
     \/ FsDelete(p)
     \/ FsCreate(p)
  /\ hist' = [hist EXCEPT !.changes = @ + 1]
  /\ UNCHANGED <<storeVars, proc, auxVars, run, tasks, watchVars>>

\* ----- SpecFilter: one serving process with its file watcher, and file
\* changes on paths of all three kinds; the first note is only saved, one
\* time less than the bound on the events
NextFilter ==
  \/ \E p \in FilterPaths \ {1} : ~ignored(p) /\ OnAdd(p)
  \/ \E p \in FilterPaths : ~ignored(p) /\ nextId < MaxEvents - 1 /\ OnChange(p)
  \/ \E p \in FilterPaths \ {1} : ~ignored(p) /\ OnUnlink(p)
  \/ \E p \in FilterPaths : IgnoredChange(p)
  \/ \E t \in timers : TimerFire(t)
  \/ Tick
  \/ TaskStep

SpecFilter == InitWatch /\ [][NextFilter]_vars

FirstTimeStart ==
  /\ proc.phase = "down"
  /\ proc'.phase = "starting"
  /\ proc'.kind = "auto"
  /\ ~indexCreated

\* The start-up run of the first start of a server in auto mode is over.
FirstRunOver ==
  /\ hist.starts = 1
  /\ proc.kind = "auto"
  /\ proc.phase = "serving"
  /\ run.origin = "startup"
  /\ run.pc = "done"

\* No note was skipped: each one was embedded, and is in the index unless
\* its embedding failed.
FirstRunIndexedAll ==
  FirstRunOver =>
    \A p \in MdPaths :
      Exists(p) => /\ run.outcome[p] \in {"indexed", "failed"}
                   /\ run.outcome[p] = "indexed" => Len(items[p]) > 0

\* C40 (first-time start-up): when the server starts in auto mode and no
\* vector index exists on disk, the decision it obtains is to reindex, with
\* the reason first-time setup, and the start-up indexing run then indexes
\* every note of the vault.
C40_FirstTimeStartup ==
  /\ [][FirstTimeStart =>
          proc'.shouldIndex /\ proc'.reason.text = "first-time setup"]_vars
  /\ []FirstRunIndexedAll
=============================================================================
